---- MODULE Spec2Model ----
(***************************************************************************)
(* A model of holmberd/go-entitystore: the key namespace engine            *)
(* (keyfactory, rediskey), the datastore client over Redis, and the        *)
(* generic EntityStore with its lifecycle events.                          *)
(*                                                                         *)
(* Strings are sequences of one-character strings, so that prefix tests,   *)
(* lower-casing, joining, glob matching and parsing are computed as the    *)
(* code computes them.                                                     *)
(***************************************************************************)
EXTENDS Integers, Sequences, FiniteSets, TLC

VARIABLES
    redis,      \* the external store: a function from Redis key to stored bytes
    ns,         \* ns[s]: the namespace given to New for store s (fixed afterwards)
    listeners,  \* listeners[s][target]: the registered listener tokens, in order
    pc,         \* the caller's position: "idle" or "returned"
    last,       \* the call that has just returned: operation, arguments, results
    trace,      \* what that call did, in order: external-store calls and emits
    named,      \* history: for each entity key, the last successful call naming it
    page,       \* a pagination loop: cursor, limit, scope and the keys seen so far
    calls       \* concurrent callers: the key builders made, each caller's position and locals

vars == <<redis, ns, listeners, pc, last, trace, named, page, calls>>

(***************************************************************************)
(* Strings                                                                 *)
(***************************************************************************)
UpperChars == <<"A","B","C","D","E","F","G","H","I","J","K","L","M",
                "N","O","P","Q","R","S","T","U","V","W","X","Y","Z">>
LowerChars == <<"a","b","c","d","e","f","g","h","i","j","k","l","m",
                "n","o","p","q","r","s","t","u","v","w","x","y","z">>
DigitChars == <<"0","1","2","3","4","5","6","7","8","9">>

Range(q) == { q[i] : i \in DOMAIN q }

\* unicode.ToLower on one character
LowerChar(c) ==
    IF c \in Range(UpperChars)
    THEN LowerChars[CHOOSE i \in DOMAIN UpperChars : UpperChars[i] = c]
    ELSE c

\* strings.ToLower
ToLower(s) == [i \in 1..Len(s) |-> LowerChar(s[i])]

\* strings.HasPrefix / strings.HasSuffix
HasPrefix(s, p) == Len(s) >= Len(p) /\ SubSeq(s, 1, Len(p)) = p
HasSuffix(s, p) == Len(s) >= Len(p) /\ SubSeq(s, Len(s) - Len(p) + 1, Len(s)) = p

\* strings.TrimPrefix / strings.TrimSuffix
TrimPrefix(s, p) == IF HasPrefix(s, p) THEN SubSeq(s, Len(p) + 1, Len(s)) ELSE s
TrimSuffix(s, p) == IF HasSuffix(s, p) THEN SubSeq(s, 1, Len(s) - Len(p)) ELSE s

\* strings.Contains for a one-character needle
ContainsChar(s, c) == \E i \in 1..Len(s) : s[i] = c

\* strconv.FormatInt(n, 10)
RECURSIVE FormatNat(_)
FormatNat(n) == IF n < 10 THEN <<DigitChars[n + 1]>>
                ELSE FormatNat(n \div 10) \o <<DigitChars[(n % 10) + 1]>>
FormatInt(n) == IF n < 0 THEN <<"-">> \o FormatNat(0 - n) ELSE FormatNat(n)

(***************************************************************************)
(* rediskey: src/keyfactory/internal/rediskey/redis_key.go                 *)
(***************************************************************************)
WildcardAnyChar      == <<"?">>
WildcardAnyString    == <<"*">>
KeyFragmentDelimiter == <<":">>
keyMaxLength         == 1024

\* the character class of redisKeyRegex: [a-zA-Z0-9:_\-\*\?\[\]\(\),]
redisKeyChars ==
    Range(UpperChars) \cup Range(LowerChars) \cup Range(DigitChars)
        \cup {":", "_", "-", "*", "?", "[", "]", "(", ")", ","}

\* Validate: "" when the key is valid, the error otherwise
Validate(key) ==
    IF key = <<>> THEN "invalid redis key: empty"
    ELSE IF Len(key) > keyMaxLength THEN "invalid redis key: too long"
    ELSE IF \E i \in 1..Len(key) : key[i] \notin redisKeyChars
         THEN "invalid redis key: invalid characters"
    ELSE IF HasPrefix(key, KeyFragmentDelimiter) \/ HasSuffix(key, KeyFragmentDelimiter)
         THEN "invalid redis key: delimiter at an end"
    ELSE ""

\* Build: the non-empty keys joined by ":"
RECURSIVE BuildFrom(_, _, _)
BuildFrom(keys, i, acc) ==
    IF i > Len(keys) THEN acc
    ELSE IF keys[i] = <<>> THEN BuildFrom(keys, i + 1, acc)
    ELSE IF acc = <<>> THEN BuildFrom(keys, i + 1, keys[i])
    ELSE BuildFrom(keys, i + 1, acc \o KeyFragmentDelimiter \o keys[i])
Build(keys) == BuildFrom(keys, 1, <<>>)

\* BuildMatchKeyPattern: fmt.Sprintf("%s%s%s", baseKey, ":", wildcard)
BuildMatchKeyPattern(baseKey, wildcard) == baseKey \o KeyFragmentDelimiter \o wildcard

\* New: [err, key]
RECURSIVE LowerFragments(_, _)
LowerFragments(fragments, i) ==
    IF i > Len(fragments) THEN <<>>
    ELSE IF fragments[i] = <<>> THEN LowerFragments(fragments, i + 1)
    ELSE <<ToLower(fragments[i])>> \o LowerFragments(fragments, i + 1)
\* New without the test for a delimiter inside a fragment
NewUnchecked(fragments) ==
    LET checked(key, err) ==
            IF err # "" THEN [err |-> err, key |-> <<>>] ELSE [err |-> "", key |-> key]
        joined(key) == checked(key, Validate(key))
    IN  joined(Build(LowerFragments(fragments, 1)))
New(fragments) ==
    LET checked(key, err) ==
            IF err # "" THEN [err |-> err, key |-> <<>>] ELSE [err |-> "", key |-> key]
        joined(key) == checked(key, Validate(key))
    IN  IF \E i \in 1..Len(fragments) : ContainsChar(fragments[i], ":")
        THEN [err |-> "invalid redis key: fragment contains delimiter", key |-> <<>>]
        ELSE joined(Build(LowerFragments(fragments, 1)))

(***************************************************************************)
(* keyfactory: src/entitystore/entity_store.go (481-718),                  *)
(* src/keyfactory/entity_key.go, src/unnamed/part_001                      *)
(***************************************************************************)
ReservedNamespaceDelimiter == <<"_", "_">>

\* keyNamespace without the lower-casing
keyNamespaceAsGiven(n) ==
    IF n = <<>> THEN <<>>
    ELSE ReservedNamespaceDelimiter \o n \o ReservedNamespaceDelimiter
keyNamespace(n) ==
    IF n = <<>> THEN <<>>
    ELSE ReservedNamespaceDelimiter \o ToLower(n) \o ReservedNamespaceDelimiter

\* validateKeyFragments: "" or the error of the first non-empty fragment with the reserved prefix
validateKeyFragments(keyFragments) ==
    IF \E i \in 1..Len(keyFragments) :
           /\ keyFragments[i] # <<>>
           /\ HasPrefix(keyFragments[i], ReservedNamespaceDelimiter)
    THEN "key fragment must not contain reserved namespace key prefix"
    ELSE ""

\* validateOptionalKeys: the reserved-prefix check, then rediskey.Validate on each non-empty key
validateOptionalKeys(keys) ==
    LET first(errs) ==
            IF \E i \in 1..Len(errs) : errs[i] # ""
            THEN errs[CHOOSE i \in 1..Len(errs) :
                          errs[i] # "" /\ \A h \in 1..(i - 1) : errs[h] = ""]
            ELSE ""
        reserved(err) ==
            IF err # "" THEN err
            ELSE first([i \in 1..Len(keys) |->
                           IF keys[i] = <<>> THEN "" ELSE Validate(keys[i])])
    IN  reserved(validateKeyFragments(keys))

ValidateKeyFragment(f) ==
    LET reserved(err) == IF err # "" THEN err ELSE Validate(f)
    IN  reserved(validateKeyFragments(<<f>>))

\* NewKey: a namespace not already wrapped is wrapped (and lower-cased)
NewKey(key, namespace) ==
    [key |-> key,
     namespace |-> IF ~HasPrefix(namespace, ReservedNamespaceDelimiter)
                   THEN keyNamespace(namespace) ELSE namespace]

\* Key.RedisKey
RedisKey(k) == Build(<<k.namespace, k.key>>)

\* the builder: KeyBuilder's four fields
NewKeyBuilder == [key |-> <<>>, parentKey |-> <<>>, wildcard |-> <<>>, namespace |-> <<>>]
NewKeyBuilderWithNamespace(namespace) == [NewKeyBuilder EXCEPT !.namespace = namespace]
WithKey(b, key)       == [b EXCEPT !.key = key]
WithParentKey(b, key) == [b EXCEPT !.parentKey = key]
WithWildcard(b, wc)   == [b EXCEPT !.wildcard = wc]
WithNamespace(b, n)   == [b EXCEPT !.namespace = n]

\* KeyBuilder.Reset clears the namespace too; KeyBuilderWithNamespace.Reset keeps it
Reset(b)   == [key |-> <<>>, parentKey |-> <<>>, wildcard |-> <<>>, namespace |-> <<>>]
NsReset(b) == [b EXCEPT !.key = <<>>, !.parentKey = <<>>, !.wildcard = <<>>]

\* KeyBuilder.build: [err, key]
NoKey == [key |-> <<>>, namespace |-> <<>>]
build(b) ==
    LET wrapped(key) ==
            IF key = <<>> THEN [err |-> "keyfactory: key must not be empty", key |-> NoKey]
            ELSE [err |-> "", key |-> NewKey(key, b.namespace)]
        joined(key) ==
            wrapped(IF b.wildcard # <<>> THEN BuildMatchKeyPattern(key, b.wildcard) ELSE key)
    IN  IF validateOptionalKeys(<<b.key, b.parentKey, b.namespace>>) # ""
        THEN [err |-> "keyfactory: invalid key", key |-> NoKey]
        ELSE joined(Build(<<b.parentKey, b.key>>))

\* BuildAndReset: what was built, and the builder as the deferred Reset leaves it
BuildAndReset(b)   == [res |-> build(b), kb |-> Reset(b)]
\* a BuildAndReset whose Reset runs only after a build that succeeded
NsBuildAndResetOnSuccess(b) ==
    [res |-> build(b), kb |-> IF build(b).err = "" THEN NsReset(b) ELSE b]
NsBuildAndReset(b) == [res |-> build(b), kb |-> NsReset(b)]

\* ParseRedisKey: the match of ^(__\w+__)[:]? is the longest prefix of word
\* characters that starts with "__", ends with "__" and has a character between
WordChars == Range(UpperChars) \cup Range(LowerChars) \cup Range(DigitChars) \cup {"_"}
WordRun(s) ==
    IF \E i \in 1..Len(s) : s[i] \notin WordChars
    THEN (CHOOSE i \in 1..Len(s) :
              s[i] \notin WordChars /\ \A j \in 1..(i - 1) : s[j] \in WordChars) - 1
    ELSE Len(s)
NamespaceMatch(s) ==
    LET longest(ends) == IF ends = {} THEN 0 ELSE CHOOSE i \in ends : \A j \in ends : j <= i
    IN  longest({ i \in 5..WordRun(s) :
                      /\ HasPrefix(s, ReservedNamespaceDelimiter)
                      /\ SubSeq(s, i - 1, i) = ReservedNamespaceDelimiter })
ParseRedisKey(key) ==
    LET split(m) ==
            IF m = 0 THEN [err |-> "", key |-> NewKey(key, <<>>)]
            ELSE [err |-> "",
                  key |-> NewKey(SubSeq(key, (IF m < Len(key) /\ key[m + 1] = ":"
                                              THEN m + 2 ELSE m + 1), Len(key)),
                                 TrimSuffix(TrimPrefix(SubSeq(key, 1, m),
                                                       ReservedNamespaceDelimiter),
                                            ReservedNamespaceDelimiter))]
    IN  IF Validate(key) # "" THEN [err |-> "keyfactory: failed to parse redis key", key |-> NoKey]
        ELSE split(NamespaceMatch(key))

\* entity kinds and the structured logical keys of entity_key.go
EntityKindTenant == <<"t","e","n","a","n","t">>
EntityKindTest   == <<"t","e","s","t","_","e","n","t","i","t","y">>

NewTenantKey(id) ==
    IF validateKeyFragments(<<id>>) # "" THEN [err |-> "keyfactory: reserved prefix", key |-> <<>>]
    ELSE New(<<EntityKindTenant, id>>)

NewEntityKey(entityKind, entityId, entityVersionId, parentEntityKey) ==
    LET under(k, parentErr) ==
            IF k.err # "" THEN k
            ELSE IF parentEntityKey = <<>> THEN k
            ELSE IF parentErr # "" THEN [err |-> parentErr, key |-> <<>>]
            ELSE [err |-> "", key |-> Build(<<parentEntityKey, k.key>>)]
    IN  IF entityKind \notin {EntityKindTenant, EntityKindTest}
        THEN [err |-> "keyfactory: invalid entity kind", key |-> <<>>]
        ELSE IF entityId = <<>>
        THEN [err |-> "keyfactory: entity ID must not be empty", key |-> <<>>]
        ELSE IF validateKeyFragments(<<entityKind, entityId, entityVersionId,
                                       parentEntityKey>>) # ""
        THEN [err |-> "keyfactory: reserved prefix", key |-> <<>>]
        ELSE under(New(<<entityKind, entityId, entityVersionId>>), Validate(parentEntityKey))


(***************************************************************************)
(* The test entity and its codec: src/unnamed/part_003 (17-100),           *)
(* src/unnamed/part_002 (17-28)                                            *)
(***************************************************************************)
\* a byte sequence that is not valid UTF-8, as one character
BadByte == "\\xff"

NewTestEntity(id, tenantId, now) ==
    LET keyed(key) ==
            IF key.err # "" THEN [err |-> key.err]
            ELSE [err |-> "",
                  e |-> [Key |-> key.key, Id |-> id, TenantId |-> tenantId, UpdatedAt |-> now]]
        parented(parentKey) ==
            IF parentKey.err # "" THEN [err |-> parentKey.err]
            ELSE keyed(NewEntityKey(EntityKindTest, id, FormatInt(now), parentKey.key))
    IN  parented(NewTenantKey(tenantId))

\* TestEntity.GetKey
GetKey(e) == e.Key

\* MarshalProto: the proto3 wire form holds the fields that differ from their
\* zero value, by field number; a string that is not valid UTF-8 does not marshal
MarshalProto(e) ==
    IF ContainsChar(e.Id, BadByte) \/ ContainsChar(e.TenantId, BadByte)
    THEN [err |-> "proto: string field contains invalid UTF-8", data |-> <<>>]
    ELSE [err |-> "",
          data |-> (IF e.Id = <<>> THEN <<>> ELSE <<[f |-> 1, s |-> e.Id, n |-> 0]>>)
                \o (IF e.TenantId = <<>> THEN <<>>
                    ELSE <<[f |-> 2, s |-> e.TenantId, n |-> 0]>>)
                \o (IF e.UpdatedAt = 0 THEN <<>>
                    ELSE <<[f |-> 3, s |-> <<>>, n |-> e.UpdatedAt]>>)]

\* UnmarshalProto: the fields read back (absent fields are zero), then FromProto,
\* which derives the key again from them
WireField(data, f) ==
    IF \E i \in 1..Len(data) : data[i].f = f
    THEN data[CHOOSE i \in 1..Len(data) : data[i].f = f]
    ELSE [f |-> f, s |-> <<>>, n |-> 0]
ZeroEntity == [Key |-> <<>>, Id |-> <<>>, TenantId |-> <<>>, UpdatedAt |-> 0]
UnmarshalProto(data) ==
    LET from(made) ==
            IF made.err # "" THEN [err |-> made.err, e |-> ZeroEntity]
            ELSE [err |-> "", e |-> made.e]
    IN  from(NewTestEntity(WireField(data, 1).s, WireField(data, 2).s, WireField(data, 3).n))

\* encoder.ProtoMarshal / encoder.ProtoUnmarshal call the entity's own methods
ProtoMarshal(e) == MarshalProto(e)
ProtoUnmarshal(data) == UnmarshalProto(data)

(***************************************************************************)
(* Redis, as the datastore client uses it: src/datastore/datastore.go      *)
(***************************************************************************)
\* glob matching of KEYS and SCAN MATCH: "*" any string, "?" any one character
RECURSIVE GlobMatch(_, _, _, _)
GlobMatch(p, i, s, j) ==
    IF i > Len(p) THEN j > Len(s)
    ELSE IF p[i] = "*"
         THEN GlobMatch(p, i + 1, s, j) \/ (j <= Len(s) /\ GlobMatch(p, i, s, j + 1))
    ELSE IF j > Len(s) THEN FALSE
    ELSE IF p[i] = "?" \/ p[i] = s[j] THEN GlobMatch(p, i + 1, s, j + 1)
    ELSE FALSE
Matches(pattern, key) == GlobMatch(pattern, 1, key, 1)

\* the order in which the server walks its key table: some order that the
\* stored keys determine; two such orders are modelled (turn)
RECURSIVE SeqOf(_)
SeqOf(S) == IF S = {} THEN <<>>
            ELSE LET x == CHOOSE y \in S : TRUE IN <<x>> \o SeqOf(S \ {x})
Reverse(q) == [i \in 1..Len(q) |-> q[Len(q) + 1 - i]]
TableOf(r, turn) == IF turn THEN Reverse(SeqOf(DOMAIN r)) ELSE SeqOf(DOMAIN r)

RECURSIVE Filter(_, _, _)
Filter(q, i, pattern) ==
    IF i > Len(q) THEN <<>>
    ELSE IF Matches(pattern, q[i]) THEN <<q[i]>> \o Filter(q, i + 1, pattern)
    ELSE Filter(q, i + 1, pattern)

\* a SET that leaves the value of a key that is already there (SET NX)
RedisSetAbsent(r, k, v) ==
    IF k \in DOMAIN r THEN r ELSE [x \in DOMAIN r \cup {k} |-> IF x = k THEN v ELSE r[x]]
\* SET, MSET (a map: one value per key, the last given), DEL
RedisSet(r, k, v) == [x \in DOMAIN r \cup {k} |-> IF x = k THEN v ELSE r[x]]
RedisMSet(r, ks, vs) ==
    [x \in DOMAIN r \cup Range(ks) |->
        IF x \in Range(ks)
        THEN vs[CHOOSE i \in 1..Len(ks) : ks[i] = x /\ \A j \in (i + 1)..Len(ks) : ks[j] # x]
        ELSE r[x]]
RedisDel(r, ks) == [x \in DOMAIN r \ Range(ks) |-> r[x]]
\* KEYS pattern
RedisKeys(r, pattern, turn) == Filter(TableOf(r, turn), 1, pattern)
\* a SCAN whose cursor stays at the end of the table
RedisScanStuck(r, cursor, pattern, count, turn, again) ==
    LET walk(table) ==
            LET upto == IF cursor + count >= Len(table) THEN Len(table) ELSE cursor + count
            IN  [keys |-> Filter(SubSeq(table, cursor + 1, upto), 1, pattern),
                 cursor |-> upto]
    IN  walk(TableOf(r, turn))
\* SCAN cursor MATCH pattern COUNT count: the next count slots of the table; a
\* key met earlier in the iteration may be returned again (again > 0 names it)
RedisScan(r, cursor, pattern, count, turn, again) ==
    LET walk(table) ==
            LET upto == IF cursor + count >= Len(table) THEN Len(table) ELSE cursor + count
                repeated == IF again >= 1 /\ again <= cursor /\ again <= Len(table)
                               /\ Matches(pattern, table[again])
                            THEN <<table[again]>> ELSE <<>>
            IN  IF cursor >= Len(table) THEN [keys |-> <<>>, cursor |-> 0]
                ELSE [keys |-> repeated \o Filter(SubSeq(table, cursor + 1, upto), 1, pattern),
                      cursor |-> IF upto >= Len(table) THEN 0 ELSE upto]
    IN  walk(TableOf(r, turn))


(***************************************************************************)
(* The datastore client: src/datastore/datastore.go.  Each operator takes  *)
(* the store contents r and whether the Redis command succeeds (ok), and   *)
(* returns the error, the contents afterwards and the commands it sent.    *)
(***************************************************************************)
ErrKeyNotFound == "datastore: key not found"

IoCall(name, ctx, keys, ok) ==
    [kind |-> "io", name |-> name, ctx |-> ctx, keys |-> keys, ok |-> ok, to |-> <<>>]

Res(r) == [err |-> "", panic |-> FALSE, redis |-> r, io |-> <<>>,
           data |-> <<>>, keys |-> <<>>, cursor |-> 0, found |-> FALSE]

RedisKeysOf(keys) == [i \in 1..Len(keys) |-> RedisKey(keys[i])]

\* a nil *Key among the keys: key.RedisKey() dereferences it
AnyNil(keys) == \E i \in 1..Len(keys) : keys[i] = NoKey

\* a Put that reports success and writes nothing
PutNowhere(r, ctx, key, data, ok) ==
    IF key = NoKey THEN Res(r)
    ELSE [Res(r) EXCEPT !.io = <<IoCall("SET", ctx, <<RedisKey(key)>>, TRUE)>>]
Put(r, ctx, key, data, ok) ==
    IF key = NoKey THEN Res(r)
    ELSE IF ~ok
    THEN [Res(r) EXCEPT !.err = "datastore: failed to write key",
                        !.io = <<IoCall("SET", ctx, <<RedisKey(key)>>, FALSE)>>]
    ELSE [Res(r) EXCEPT !.redis = RedisSet(r, RedisKey(key), data),
                        !.io = <<IoCall("SET", ctx, <<RedisKey(key)>>, TRUE)>>]

\* a PutMulti that drops the keys the store already holds
PutMultiFresh(r, ctx, keys, data, ok) ==
    LET fresh(w) == [x \in DOMAIN w \ (DOMAIN r \cap Range(RedisKeysOf(keys))) |-> w[x]]
    IN  IF Len(keys) = 0 THEN Res(r)
        ELSE [Res(r) EXCEPT !.redis = fresh(RedisMSet(r, RedisKeysOf(keys), data)),
                            !.io = <<IoCall("MSET", ctx, RedisKeysOf(keys), TRUE)>>]
PutMulti(r, ctx, keys, data, ok) ==
    IF Len(keys) # Len(data)
    THEN [Res(r) EXCEPT !.err = "datastore: key and data slices have different length"]
    ELSE IF Len(keys) = 0 THEN Res(r)
    ELSE IF AnyNil(keys) THEN [Res(r) EXCEPT !.panic = TRUE]
    ELSE IF ~ok
    THEN [Res(r) EXCEPT !.err = "datastore: failed to write keys",
                        !.io = <<IoCall("MSET", ctx, RedisKeysOf(keys), FALSE)>>]
    ELSE [Res(r) EXCEPT !.redis = RedisMSet(r, RedisKeysOf(keys), data),
                        !.io = <<IoCall("MSET", ctx, RedisKeysOf(keys), TRUE)>>]

\* a Delete that reports success and removes nothing
DeleteNothing(r, ctx, keys, ok) ==
    IF Len(keys) = 0 THEN Res(r)
    ELSE IF AnyNil(keys) THEN [Res(r) EXCEPT !.panic = TRUE]
    ELSE [Res(r) EXCEPT !.io = <<IoCall("DEL", ctx, RedisKeysOf(keys), TRUE)>>]
Delete(r, ctx, keys, ok) ==
    IF Len(keys) = 0 THEN Res(r)
    ELSE IF AnyNil(keys) THEN [Res(r) EXCEPT !.panic = TRUE]
    ELSE IF ~ok
    THEN [Res(r) EXCEPT !.err = "datastore: failed to delete keys from redis",
                        !.io = <<IoCall("DEL", ctx, RedisKeysOf(keys), FALSE)>>]
    ELSE [Res(r) EXCEPT !.redis = RedisDel(r, RedisKeysOf(keys)),
                        !.io = <<IoCall("DEL", ctx, RedisKeysOf(keys), TRUE)>>]

\* the Redis keys of a reply parsed into Keys; the first that does not parse fails the call
ParseAll(rsKeys) ==
    LET all(parsed) ==
            IF \E i \in 1..Len(parsed) : parsed[i].err # ""
            THEN [err |-> "datastore: failed to parse redis key", keys |-> <<>>]
            ELSE [err |-> "", keys |-> [i \in 1..Len(parsed) |-> parsed[i].key]]
    IN  all([i \in 1..Len(rsKeys) |-> ParseRedisKey(rsKeys[i])])

GetKeys(r, ctx, keyMatch, ok, turn) ==
    LET call(pattern, o) == <<IoCall("KEYS", ctx, <<pattern>>, o)>>
        reply(pattern, parsed) ==
            IF parsed.err # "" THEN [Res(r) EXCEPT !.err = parsed.err, !.io = call(pattern, TRUE)]
            ELSE [Res(r) EXCEPT !.keys = parsed.keys, !.io = call(pattern, TRUE)]
        sent(pattern) ==
            IF ~ok
            THEN [Res(r) EXCEPT !.err = "datastore: failed to retrieve keys from redis",
                                !.io = call(pattern, FALSE)]
            ELSE reply(pattern, ParseAll(RedisKeys(r, pattern, turn)))
    IN  sent(RedisKey(keyMatch))

DeleteMatch(r, ctx, keyMatch, ok1, ok2, turn) ==
    LET deleted(found, d) == [d EXCEPT !.io = found.io \o d.io]
        matched(found) ==
            IF found.err # "" THEN found
            ELSE IF Len(found.keys) = 0 THEN [Res(r) EXCEPT !.io = found.io]
            ELSE deleted(found, Delete(r, ctx, found.keys, ok2))
    IN  IF keyMatch = NoKey THEN Res(r)
        ELSE matched(GetKeys(r, ctx, keyMatch, ok1, turn))

\* a Get that reports a missing key as it reports a failed command
GetMissAsFailure(r, ctx, key, ok) ==
    IF key = NoKey THEN Res(r)
    ELSE LET call(o) == <<IoCall("GET", ctx, <<RedisKey(key)>>, o)>>
         IN  IF ~ok THEN [Res(r) EXCEPT !.err = "datastore: redis error", !.io = call(FALSE)]
             ELSE IF RedisKey(key) \notin DOMAIN r
             THEN [Res(r) EXCEPT !.err = "datastore: redis error", !.io = call(TRUE)]
             ELSE [Res(r) EXCEPT !.data = <<r[RedisKey(key)]>>, !.io = call(TRUE)]
Get(r, ctx, key, ok) ==
    IF key = NoKey THEN Res(r)
    ELSE LET call(o) == <<IoCall("GET", ctx, <<RedisKey(key)>>, o)>>
         IN  IF ~ok THEN [Res(r) EXCEPT !.err = "datastore: redis error", !.io = call(FALSE)]
             ELSE IF RedisKey(key) \notin DOMAIN r
             THEN [Res(r) EXCEPT !.err = ErrKeyNotFound, !.io = call(TRUE)]
             ELSE [Res(r) EXCEPT !.data = <<r[RedisKey(key)]>>, !.io = call(TRUE)]

\* an MGET reply read from its last value to its first
FoundDataBackwards(r, rsKeys, i) ==
    LET held(ks) == Reverse([j \in 1..Len(ks) |-> r[ks[j]]])
    IN  held(SelectSeq(SubSeq(rsKeys, i, Len(rsKeys)), LAMBDA k : k \in DOMAIN r))
\* MGET answers nil for a missing key; the nils are dropped
RECURSIVE FoundData(_, _, _)
FoundData(r, rsKeys, i) ==
    IF i > Len(rsKeys) THEN <<>>
    ELSE IF rsKeys[i] \in DOMAIN r THEN <<r[rsKeys[i]]>> \o FoundData(r, rsKeys, i + 1)
    ELSE FoundData(r, rsKeys, i + 1)
\* a GetMulti that answers the first value only
GetMultiFirst(r, ctx, keys, ok) ==
    IF Len(keys) = 0 THEN Res(r)
    ELSE [Res(r) EXCEPT !.data = SubSeq(FoundData(r, RedisKeysOf(keys), 1), 1, 1),
                        !.io = <<IoCall("MGET", ctx, RedisKeysOf(keys), TRUE)>>]
GetMulti(r, ctx, keys, ok) ==
    IF Len(keys) = 0 THEN Res(r)
    ELSE IF AnyNil(keys) THEN [Res(r) EXCEPT !.panic = TRUE]
    ELSE IF ~ok
    THEN [Res(r) EXCEPT !.err = "datastore: failed to retrieve keys",
                        !.io = <<IoCall("MGET", ctx, RedisKeysOf(keys), FALSE)>>]
    ELSE [Res(r) EXCEPT !.data = FoundData(r, RedisKeysOf(keys), 1),
                        !.io = <<IoCall("MGET", ctx, RedisKeysOf(keys), TRUE)>>]

scanMaxLimit == 1000
GetKeysWithCursor(r, ctx, cursor, limit, keyMatch, ok, turn, again) ==
    LET count == IF limit <= 0 \/ limit > scanMaxLimit THEN scanMaxLimit ELSE limit
        call(pattern, o) ==
            <<[IoCall("SCAN", ctx, <<pattern>>, o) EXCEPT !.to = <<cursor, count>>]>>
        parsed(pattern, reply, p) ==
            IF p.err # "" THEN [Res(r) EXCEPT !.err = p.err, !.io = call(pattern, TRUE)]
            ELSE [Res(r) EXCEPT !.keys = p.keys, !.cursor = reply.cursor,
                                !.io = call(pattern, TRUE)]
        scanned(pattern, reply) == parsed(pattern, reply, ParseAll(reply.keys))
        sent(pattern) ==
            IF ~ok
            THEN [Res(r) EXCEPT !.err = "datastore: failed scanning redis for keys",
                                !.io = call(pattern, FALSE)]
            ELSE scanned(pattern, RedisScan(r, cursor, pattern, count, turn, again))
    IN  sent(RedisKey(keyMatch))

Exists(r, ctx, key, ok) ==
    IF key = NoKey THEN Res(r)
    ELSE LET call(o) == <<IoCall("EXISTS", ctx, <<RedisKey(key)>>, o)>>
         IN  IF ~ok THEN [Res(r) EXCEPT !.err = "datastore: redis error", !.io = call(FALSE)]
             ELSE [Res(r) EXCEPT !.found = RedisKey(key) \in DOMAIN r, !.io = call(TRUE)]

(***************************************************************************)
(* The event emitter: src/unnamed/part_005.  An emitter of an EventTarget  *)
(* is the entry of its one event name in the events map: whether the map   *)
(* has the entry (has) and the listeners' tokens in order (ls).            *)
(***************************************************************************)
NewEmitter == [has |-> FALSE, ls |-> <<>>]

AddListener(e, token) == [has |-> TRUE, ls |-> Append(e.ls, token)]

\* slices.Delete(listeners, i, i+1)
DeleteAt(q, i) == SubSeq(q, 1, i - 1) \o SubSeq(q, i + 1, Len(q))

RemoveListener(e, token) ==
    IF ~e.has THEN [ok |-> FALSE, e |-> e]
    ELSE IF \E i \in 1..Len(e.ls) : e.ls[i] = token
    THEN LET i == CHOOSE j \in 1..Len(e.ls) :
                      e.ls[j] = token /\ \A h \in 1..(j - 1) : e.ls[h] # token
         IN  [ok |-> TRUE, e |-> [e EXCEPT !.ls = DeleteAt(e.ls, i)]]
    ELSE [ok |-> FALSE, e |-> e]

RemoveAllListeners(e) ==
    IF e.has THEN [ok |-> TRUE, e |-> NewEmitter] ELSE [ok |-> FALSE, e |-> e]

\* Emit: the listeners invoked, in order, and whether there was any
Emit(e) ==
    IF ~e.has \/ Len(e.ls) = 0 THEN [ok |-> FALSE, to |-> <<>>]
    ELSE [ok |-> TRUE, to |-> e.ls]


(***************************************************************************)
(* The entity store: src/entitystore/entity_store.go (1-479).              *)
(* A store es is [id, entityKind, namespace, on], on being its four event  *)
(* targets.  Each operation takes the external store's contents r and      *)
(* fail, the number of the external call that fails (0: none), and returns *)
(* the contents afterwards, what the caller gets back (last) and what the  *)
(* call did (trace).                                                       *)
(***************************************************************************)
Events == {"EntitiesAdded", "EntitiesRemoved", "EntitiesUpdated", "EntitiesFlushed"}

\* New: the store, or the error
StoreNew(id, entityKind, namespace) ==
    IF entityKind = <<>> THEN [err |-> "entity kind must not be empty"]
    ELSE IF namespace # <<>> /\ ValidateKeyFragment(namespace) # ""
    THEN [err |-> ValidateKeyFragment(namespace)]
    ELSE [err |-> "",
          es |-> [id |-> id, entityKind |-> entityKind, namespace |-> namespace,
                  on |-> [t \in Events |-> NewEmitter]]]

\* EntityStore.NewKeyBuilder
StoreKeyBuilder(es) == NewKeyBuilderWithNamespace(es.namespace)

\* an emit that hands the listeners a context of its own
emitDetached(es, target, ctx, keys) ==
    LET sent(e) == [kind |-> "emit", name |-> target, ctx |-> "", keys |-> keys,
                    ok |-> e.ok, to |-> e.to]
    IN  sent(Emit(es.on[target]))
\* eventTarget.emit
emit(es, target, ctx, keys) ==
    LET sent(e) == [kind |-> "emit", name |-> target, ctx |-> ctx, keys |-> keys,
                    ok |-> e.ok, to |-> e.to]
    IN  sent(Emit(es.on[target]))

NoCall == [op |-> "", store |-> 0, ctx |-> "", target |-> "", token |-> "",
           ents |-> <<>>, keys |-> <<>>,
           parent |-> <<>>, cursor |-> 0, limit |-> 0, err |-> "", panic |-> FALSE,
           out |-> <<>>, found |-> FALSE, next |-> 0, ret |-> <<>>,
           before |-> [x \in {} |-> <<>>]]
Call(op, es, ctx) == [NoCall EXCEPT !.op = op, !.store = es.id, !.ctx = ctx]

Done(r, l, t) == [redis |-> r, last |-> l, trace |-> t]
Failed(r, l, err, t) == [redis |-> r, last |-> [l EXCEPT !.err = err, !.next = 0], trace |-> t]
Panicked(r, l, t) == [redis |-> r, last |-> [l EXCEPT !.panic = TRUE], trace |-> t]

\* the data of a reply decoded, entity by entity; the first that fails fails the call
DecodeAll(data) ==
    LET all(decoded) ==
            IF \E i \in 1..Len(decoded) : decoded[i].err # ""
            THEN [err |-> "failed to unmarshal entity", out |-> <<>>]
            ELSE [err |-> "", out |-> [i \in 1..Len(decoded) |-> decoded[i].e]]
    IN  all([i \in 1..Len(data) |-> ProtoUnmarshal(data[i])])

\* the key of one entity key, through a builder: kb.WithKey(k); kb.BuildAndReset()
KeyOf(kb, entityKey) == NsBuildAndReset(WithKey(kb, entityKey))

\* the match key of a scope: parent key, entity kind and the any-string wildcard
ScopeOf(es, parentKey) ==
    NsBuildAndReset(WithWildcard(WithKey(WithParentKey(StoreKeyBuilder(es), parentKey),
                                         es.entityKind),
                                 WildcardAnyString))

\* flush without the test of the namespace
StoreFlushUnguarded(es, r, ctx, fail, turn) ==
    LET l == Call("flush", es, ctx)
        deleted(d) ==
            IF d.err # "" THEN Failed(d.redis, l, d.err, d.io)
            ELSE Done(d.redis, l, d.io \o <<emit(es, "EntitiesFlushed", ctx, <<>>)>>)
        built(b) ==
            IF b.err # "" THEN Failed(r, l, b.err, <<>>)
            ELSE deleted(DeleteMatch(r, ctx, b.key, fail # 1, fail # 2, turn))
    IN  built(NsBuildAndReset(WithWildcard(StoreKeyBuilder(es), WildcardAnyString)).res)
StoreFlush(es, r, ctx, fail, turn) ==
    LET l == Call("flush", es, ctx)
        deleted(d) ==
            IF d.err # "" THEN Failed(d.redis, l, d.err, d.io)
            ELSE Done(d.redis, l, d.io \o <<emit(es, "EntitiesFlushed", ctx, <<>>)>>)
        built(b) ==
            IF b.err # "" THEN Failed(r, l, b.err, <<>>)
            ELSE deleted(DeleteMatch(r, ctx, b.key, fail # 1, fail # 2, turn))
    IN  IF es.namespace = <<>> THEN Panicked(r, l, <<>>)
        ELSE built(NsBuildAndReset(WithWildcard(StoreKeyBuilder(es), WildcardAnyString)).res)

\* an Add that returns at once on an empty key, as Remove and Get do
StoreAddGuarded(es, r, ctx, entity, fail) ==
    LET l == [Call("Add", es, ctx) EXCEPT !.ents = <<entity>>, !.keys = <<GetKey(entity)>>]
        written(w) ==
            IF w.err # "" THEN Failed(w.redis, l, w.err, w.io)
            ELSE Done(w.redis, [l EXCEPT !.ret = <<GetKey(entity)>>],
                      w.io \o <<emit(es, "EntitiesAdded", ctx, <<GetKey(entity)>>)>>)
        built(b, m) ==
            IF b.err # "" THEN Failed(r, l, b.err, <<>>)
            ELSE IF m.err # "" THEN Failed(r, l, m.err, <<>>)
            ELSE written(Put(r, ctx, b.key, m.data, fail # 1))
    IN  IF GetKey(entity) = <<>> THEN Done(r, l, <<>>)
        ELSE built(KeyOf(StoreKeyBuilder(es), GetKey(entity)).res, ProtoMarshal(entity))
StoreAdd(es, r, ctx, entity, fail) ==
    LET l == [Call("Add", es, ctx) EXCEPT !.ents = <<entity>>, !.keys = <<GetKey(entity)>>]
        written(w) ==
            IF w.err # "" THEN Failed(w.redis, l, w.err, w.io)
            ELSE Done(w.redis, [l EXCEPT !.ret = <<GetKey(entity)>>],
                      w.io \o <<emit(es, "EntitiesAdded", ctx, <<GetKey(entity)>>)>>)
        built(b, m) ==
            IF b.err # "" THEN Failed(r, l, b.err, <<>>)
            ELSE IF m.err # "" THEN Failed(r, l, m.err, <<>>)
            ELSE written(Put(r, ctx, b.key, m.data, fail # 1))
    IN  built(KeyOf(StoreKeyBuilder(es), GetKey(entity)).res, ProtoMarshal(entity))

\* the loop of AddBatch over one builder: keys, entity keys and data, or the first error
\* a loop that leaves out the entity it cannot key or marshal and goes on
RECURSIVE AddBatchLoopSkip(_, _, _, _)
AddBatchLoopSkip(kb, entities, i, acc) ==
    LET built(b, m) ==
            IF b.res.err # "" \/ m.err # ""
            THEN AddBatchLoopSkip(b.kb, entities, i + 1, acc)
            ELSE AddBatchLoopSkip(b.kb, entities, i + 1,
                                  [acc EXCEPT !.keys = Append(@, b.res.key),
                                              !.entityKeys = Append(@, GetKey(entities[i])),
                                              !.data = Append(@, m.data)])
    IN  IF i > Len(entities) THEN acc
        ELSE built(KeyOf(kb, GetKey(entities[i])), ProtoMarshal(entities[i]))
RECURSIVE AddBatchLoop(_, _, _, _)
AddBatchLoop(kb, entities, i, acc) ==
    LET built(b, m) ==
            IF b.res.err # "" THEN [acc EXCEPT !.err = b.res.err]
            ELSE IF m.err # "" THEN [acc EXCEPT !.err = "failed to marshal entity"]
            ELSE AddBatchLoop(b.kb, entities, i + 1,
                              [acc EXCEPT !.keys = Append(@, b.res.key),
                                          !.entityKeys = Append(@, GetKey(entities[i])),
                                          !.data = Append(@, m.data)])
    IN  IF i > Len(entities) THEN acc
        ELSE built(KeyOf(kb, GetKey(entities[i])), ProtoMarshal(entities[i]))

StoreAddBatch(es, r, ctx, entities, fail) ==
    LET l == [Call("AddBatch", es, ctx) EXCEPT
                  !.ents = entities,
                  !.keys = [i \in 1..Len(entities) |-> GetKey(entities[i])]]
        written(entityKeys, w) ==
            IF w.err # "" THEN Failed(w.redis, l, w.err, w.io)
            ELSE Done(w.redis, [l EXCEPT !.ret = entityKeys],
                      w.io \o <<emit(es, "EntitiesAdded", ctx, entityKeys)>>)
        built(b) ==
            IF b.err # "" THEN Failed(r, l, b.err, <<>>)
            ELSE written(b.entityKeys, PutMulti(r, ctx, b.keys, b.data, fail # 1))
    IN  IF Len(entities) = 0 THEN Done(r, l, <<>>)
        ELSE built(AddBatchLoop(StoreKeyBuilder(es), entities, 1,
                                [err |-> "", keys |-> <<>>, entityKeys |-> <<>>,
                                 data |-> <<>>]))

\* a Remove without the early return on an empty key
StoreRemoveUnguarded(es, r, ctx, entityKey, fail) ==
    LET l == [Call("Remove", es, ctx) EXCEPT !.keys = <<entityKey>>]
        deleted(d) ==
            IF d.err # "" THEN Failed(d.redis, l, d.err, d.io)
            ELSE Done(d.redis, l, d.io \o <<emit(es, "EntitiesRemoved", ctx, <<entityKey>>)>>)
        built(b) ==
            IF b.err # "" THEN Failed(r, l, b.err, <<>>)
            ELSE deleted(Delete(r, ctx, <<b.key>>, fail # 1))
    IN  built(KeyOf(StoreKeyBuilder(es), entityKey).res)
StoreRemove(es, r, ctx, entityKey, fail) ==
    LET l == [Call("Remove", es, ctx) EXCEPT !.keys = <<entityKey>>]
        deleted(d) ==
            IF d.err # "" THEN Failed(d.redis, l, d.err, d.io)
            ELSE Done(d.redis, l, d.io \o <<emit(es, "EntitiesRemoved", ctx, <<entityKey>>)>>)
        built(b) ==
            IF b.err # "" THEN Failed(r, l, b.err, <<>>)
            ELSE deleted(Delete(r, ctx, <<b.key>>, fail # 1))
    IN  IF entityKey = <<>> THEN Done(r, l, <<>>)
        ELSE built(KeyOf(StoreKeyBuilder(es), entityKey).res)

\* the loop of RemoveByKeys over one builder: every key is built, the empty ones too
RECURSIVE BuildKeysLoop(_, _, _, _)
BuildKeysLoop(kb, entityKeys, i, acc) ==
    LET built(b) ==
            IF b.res.err # "" THEN [acc EXCEPT !.err = b.res.err]
            ELSE BuildKeysLoop(b.kb, entityKeys, i + 1,
                               [acc EXCEPT !.keys = Append(@, b.res.key)])
    IN  IF i > Len(entityKeys) THEN acc
        ELSE built(KeyOf(kb, entityKeys[i]))

\* a RemoveByKeys whose event carries only the keys that the store held
StoreRemoveByKeysHeld(es, r, ctx, entityKeys, fail) ==
    LET l == [Call("RemoveByKeys", es, ctx) EXCEPT !.keys = entityKeys]
        held == SelectSeq(entityKeys,
                          LAMBDA k : RedisKey(NewKey(k, es.namespace)) \in DOMAIN r)
        deleted(d) ==
            IF d.err # "" THEN Failed(d.redis, l, d.err, d.io)
            ELSE Done(d.redis, l, d.io \o <<emit(es, "EntitiesRemoved", ctx, held)>>)
        built(b) ==
            IF b.err # "" THEN Failed(r, l, b.err, <<>>)
            ELSE deleted(Delete(r, ctx, b.keys, fail # 1))
    IN  IF Len(entityKeys) = 0 THEN Done(r, l, <<>>)
        ELSE built(BuildKeysLoop(StoreKeyBuilder(es), entityKeys, 1,
                                 [err |-> "", keys |-> <<>>]))
StoreRemoveByKeys(es, r, ctx, entityKeys, fail) ==
    LET l == [Call("RemoveByKeys", es, ctx) EXCEPT !.keys = entityKeys]
        deleted(d) ==
            IF d.err # "" THEN Failed(d.redis, l, d.err, d.io)
            ELSE Done(d.redis, l, d.io \o <<emit(es, "EntitiesRemoved", ctx, entityKeys)>>)
        built(b) ==
            IF b.err # "" THEN Failed(r, l, b.err, <<>>)
            ELSE deleted(Delete(r, ctx, b.keys, fail # 1))
    IN  IF Len(entityKeys) = 0 THEN Done(r, l, <<>>)
        ELSE built(BuildKeysLoop(StoreKeyBuilder(es), entityKeys, 1,
                                 [err |-> "", keys |-> <<>>]))

StoreRemoveAll(es, r, ctx, parentKey, fail, turn) ==
    LET l == [Call("RemoveAll", es, ctx) EXCEPT !.parent = parentKey]
        deleted(found, entityKeys, d) ==
            IF d.err # "" THEN Failed(d.redis, l, d.err, found.io \o d.io)
            ELSE Done(d.redis, [l EXCEPT !.ret = entityKeys],
                      found.io \o d.io \o <<emit(es, "EntitiesRemoved", ctx, entityKeys)>>)
        matched(found) ==
            IF found.err # "" THEN Failed(r, l, found.err, found.io)
            ELSE IF Len(found.keys) = 0 THEN Done(r, l, found.io)
            ELSE deleted(found, [i \in 1..Len(found.keys) |-> found.keys[i].key],
                         Delete(r, ctx, found.keys, fail # 2))
        built(b) ==
            IF b.err # "" THEN Failed(r, l, b.err, <<>>)
            ELSE matched(GetKeys(r, ctx, b.key, fail # 1, turn))
    IN  built(ScopeOf(es, parentKey).res)

StoreGet(es, r, ctx, entityKey, fail) ==
    LET l == [Call("Get", es, ctx) EXCEPT !.keys = <<entityKey>>]
        decoded(g, u) ==
            IF u.err # "" THEN Failed(r, l, u.err, g.io)
            ELSE Done(r, [l EXCEPT !.out = <<u.e>>], g.io)
        got(g) ==
            IF g.err # "" THEN Failed(r, l, g.err, g.io)
            ELSE decoded(g, ProtoUnmarshal(g.data[1]))
        built(b) ==
            IF b.err # "" THEN Failed(r, l, b.err, <<>>)
            ELSE got(Get(r, ctx, b.key, fail # 1))
    IN  IF entityKey = <<>> THEN Done(r, l, <<>>)
        ELSE built(KeyOf(StoreKeyBuilder(es), entityKey).res)

\* the loop of GetByKeys over one builder: an empty key is skipped and leaves nil
RECURSIVE GetKeysLoop(_, _, _, _)
GetKeysLoop(kb, entityKeys, i, acc) ==
    LET built(b) ==
            IF b.res.err # "" THEN [acc EXCEPT !.err = b.res.err]
            ELSE GetKeysLoop(b.kb, entityKeys, i + 1,
                             [acc EXCEPT !.keys = Append(@, b.res.key)])
    IN  IF i > Len(entityKeys) THEN acc
        ELSE IF entityKeys[i] = <<>>
        THEN GetKeysLoop(kb, entityKeys, i + 1, [acc EXCEPT !.keys = Append(@, NoKey)])
        ELSE built(KeyOf(kb, entityKeys[i]))

\* what GetByKeys, GetAll and GetWithPagination do with the keys they have
Fetch(r, l, ctx, keys, ok, before) ==
    LET decoded(g, u) ==
            IF u.err # "" THEN Failed(r, l, u.err, before \o g.io)
            ELSE Done(r, [l EXCEPT !.out = u.out], before \o g.io)
        got(g) ==
            IF g.panic THEN Panicked(r, l, before)
            ELSE IF g.err # "" THEN Failed(r, l, g.err, before \o g.io)
            ELSE decoded(g, DecodeAll(g.data))
    IN  got(GetMulti(r, ctx, keys, ok))

StoreGetByKeys(es, r, ctx, entityKeys, fail) ==
    LET l == [Call("GetByKeys", es, ctx) EXCEPT !.keys = entityKeys]
        built(b) ==
            IF b.err # "" THEN Failed(r, l, b.err, <<>>)
            ELSE Fetch(r, l, ctx, b.keys, fail # 1, <<>>)
    IN  IF Len(entityKeys) = 0 THEN Done(r, l, <<>>)
        ELSE built(GetKeysLoop(StoreKeyBuilder(es), entityKeys, 1,
                               [err |-> "", keys |-> <<>>]))

pageMaxLimit == 1000
\* GetWithPagination that scans with the largest limit whatever it is asked
StoreGetWithPaginationMax(es, r, ctx, cursor, limit, parentKey, fail, turn, again) ==
    LET l == [Call("GetWithPagination", es, ctx) EXCEPT
                  !.cursor = cursor, !.limit = limit, !.parent = parentKey]
        scanned(s) ==
            IF s.err # "" THEN Failed(r, l, s.err, s.io)
            ELSE IF Len(s.keys) = 0 THEN Done(r, [l EXCEPT !.next = s.cursor], s.io)
            ELSE Fetch(r, [l EXCEPT !.next = s.cursor], ctx, s.keys, fail # 2, s.io)
        built(b) ==
            IF b.err # "" THEN Failed(r, l, b.err, <<>>)
            ELSE scanned(GetKeysWithCursor(r, ctx, cursor, pageMaxLimit, b.key, fail # 1,
                                           turn, again))
    IN  built(ScopeOf(es, parentKey).res)
StoreGetWithPagination(es, r, ctx, cursor, limit, parentKey, fail, turn, again) ==
    LET l == [Call("GetWithPagination", es, ctx) EXCEPT
                  !.cursor = cursor, !.limit = limit, !.parent = parentKey]
        lim == IF limit <= 0 \/ limit >= pageMaxLimit THEN pageMaxLimit ELSE limit
        scanned(s) ==
            IF s.err # "" THEN Failed(r, l, s.err, s.io)
            ELSE IF Len(s.keys) = 0 THEN Done(r, [l EXCEPT !.next = s.cursor], s.io)
            ELSE Fetch(r, [l EXCEPT !.next = s.cursor], ctx, s.keys, fail # 2, s.io)
        built(b) ==
            IF b.err # "" THEN Failed(r, l, b.err, <<>>)
            ELSE scanned(GetKeysWithCursor(r, ctx, cursor, lim, b.key, fail # 1, turn, again))
    IN  built(ScopeOf(es, parentKey).res)

StoreGetAll(es, r, ctx, parentKey, fail, turn) ==
    LET l == [Call("GetAll", es, ctx) EXCEPT !.parent = parentKey]
        matched(found) ==
            IF found.err # "" THEN Failed(r, l, found.err, found.io)
            ELSE Fetch(r, l, ctx, found.keys, fail # 2, found.io)
        built(b) ==
            IF b.err # "" THEN Failed(r, l, b.err, <<>>)
            ELSE matched(GetKeys(r, ctx, b.key, fail # 1, turn))
    IN  built(ScopeOf(es, parentKey).res)

\* an Exists that asks the external store before it looks at the key it built
StoreExistsEager(es, r, ctx, entityKey, fail) ==
    LET l == [Call("Exists", es, ctx) EXCEPT !.keys = <<entityKey>>]
        checked(b, x) ==
            IF b.err # "" THEN Failed(r, l, b.err, x.io)
            ELSE IF x.err # "" THEN Failed(r, l, x.err, x.io)
            ELSE Done(r, [l EXCEPT !.found = x.found], x.io)
        built(b) == checked(b, Exists(r, ctx, NewKey(entityKey, es.namespace), fail # 1))
    IN  IF entityKey = <<>> THEN Done(r, l, <<>>)
        ELSE built(KeyOf(StoreKeyBuilder(es), entityKey).res)
StoreExists(es, r, ctx, entityKey, fail) ==
    LET l == [Call("Exists", es, ctx) EXCEPT !.keys = <<entityKey>>]
        checked(x) ==
            IF x.err # "" THEN Failed(r, l, x.err, x.io)
            ELSE Done(r, [l EXCEPT !.found = x.found], x.io)
        built(b) ==
            IF b.err # "" THEN Failed(r, l, b.err, <<>>)
            ELSE checked(Exists(r, ctx, b.key, fail # 1))
    IN  IF entityKey = <<>> THEN Done(r, l, <<>>)
        ELSE built(KeyOf(StoreKeyBuilder(es), entityKey).res)


(***************************************************************************)
(* Inputs                                                                  *)
(***************************************************************************)
MaxBatch     == 2   \* the longest batch and key list
MaxCursor    == 2   \* the largest cursor a caller passes that no scan returned
MaxAgain     == 1   \* the table slots from which a scan may return a key again

Ctxs == {"ctx1", "ctx2"}
Tokens == {"tok1", "tok2"}

IdA == <<"a">>
IdUpperA == <<"A">>
IdB == <<"b">>
IdC == <<"c">>
TenantT == <<"t">>
TenantU == <<"u">>
Now == 7

Made(id, tenantId) == NewTestEntity(id, tenantId, Now).e

\* entities that NewTestEntity makes: "a" and "A" get the same key
WellFormed == { Made(id, t) : id \in {IdA, IdUpperA, IdB}, t \in {TenantT, TenantU} }
\* entities written as literals: no key, a reserved key, a malformed key, and a
\* valid key with an Id that does not marshal
ReservedEntity  == [ZeroEntity EXCEPT !.Key = <<"_","_","a">>, !.Id = IdA]
MalformedEntity == [ZeroEntity EXCEPT !.Key = <<":","a">>, !.Id = IdA]
BadUtf8Entity   == [Made(IdC, TenantT) EXCEPT !.Id = <<BadByte>>]
Entities == WellFormed \cup {ZeroEntity, ReservedEntity, MalformedEntity, BadUtf8Entity}
BatchEntities ==
    {Made(IdA, TenantT), Made(IdUpperA, TenantT), Made(IdB, TenantT), Made(IdA, TenantU),
     ZeroEntity, ReservedEntity, BadUtf8Entity}

SeqsUpTo(S, n) == UNION { [1..m -> S] : m \in 0..n }

AbsentKey == <<"z","z">>
EntityKeys == { GetKey(e) : e \in WellFormed }
KeyInputs == EntityKeys \cup {<<>>, AbsentKey, <<"_","_","a">>, <<":","a">>}
ListKeys == {GetKey(Made(IdA, TenantT)), GetKey(Made(IdB, TenantT)),
             GetKey(Made(IdA, TenantU)), AbsentKey, <<>>, <<"_","_","a">>}

ParentOf(tenantId) == NewTenantKey(tenantId).key
ParentInputs == {<<>>, ParentOf(TenantT), ParentOf(TenantU), <<"_","_","p">>}
LimitInputs == {0, 1, 2, pageMaxLimit}

EmptyRedis == [x \in {} |-> <<>>]

NoHistory == [on |-> FALSE, m |-> [k \in {} |-> ""]]
NoCalls == [kbs |-> <<>>, of |-> <<>>]
NoPage == [on |-> FALSE, store |-> 0, parent |-> <<>>, limit |-> 0, turn |-> FALSE,
           cursor |-> 0, seen |-> {}, twice |-> FALSE, done |-> FALSE, stored |-> {}]

(***************************************************************************)
(* The state machine                                                       *)
(***************************************************************************)
\* the store s as the operations see it
StoreOf(s) == [id |-> s, entityKind |-> EntityKindTest, namespace |-> ns[s],
               on |-> listeners[s]]

\* the history of the calls that named a key: Add and AddBatch leave it
\* "added", Remove and RemoveByKeys "removed"; a scope-wide removal ends it
Track(h, r, o) ==
    IF ~h.on \/ o.last.err # "" \/ o.last.panic THEN h
    ELSE IF o.last.op \in {"Add", "AddBatch"}
    THEN [h EXCEPT !.m = [k \in DOMAIN h.m \cup Range(o.last.ret) |->
                             IF k \in Range(o.last.ret) THEN "added" ELSE h.m[k]]]
    ELSE IF o.last.op \in {"Remove", "RemoveByKeys"}
    THEN [h EXCEPT !.m = [k \in DOMAIN h.m \cup (Range(o.last.keys) \ {<<>>}) |->
                             IF k \in Range(o.last.keys) THEN "removed" ELSE h.m[k]]]
    ELSE IF o.last.op \in {"RemoveAll", "flush"} /\ o.redis # r
    THEN [h EXCEPT !.m = [k \in {} |-> ""]]
    ELSE h

\* a call of the store returns: the external store, the result with the store
\* contents the call began with (before), and the trace
Returns(o) ==
    /\ pc = "idle"
    /\ redis' = o.redis
    /\ last' = [o.last EXCEPT !.before = redis]
    /\ trace' = o.trace
    /\ pc' = "returned"
    /\ named' = Track(named, redis, o)
    /\ UNCHANGED <<ns, listeners, page, calls>>

Flush(s, ctx, fail, turn) == Returns(StoreFlush(StoreOf(s), redis, ctx, fail, turn))
Add(s, ctx, e, fail) == Returns(StoreAdd(StoreOf(s), redis, ctx, e, fail))
AddBatch(s, ctx, es, fail) == Returns(StoreAddBatch(StoreOf(s), redis, ctx, es, fail))
Remove(s, ctx, k, fail) == Returns(StoreRemove(StoreOf(s), redis, ctx, k, fail))
RemoveByKeys(s, ctx, ks, fail) == Returns(StoreRemoveByKeys(StoreOf(s), redis, ctx, ks, fail))
RemoveAll(s, ctx, p, fail, turn) == Returns(StoreRemoveAll(StoreOf(s), redis, ctx, p, fail, turn))
GetEntity(s, ctx, k, fail) == Returns(StoreGet(StoreOf(s), redis, ctx, k, fail))
GetByKeys(s, ctx, ks, fail) == Returns(StoreGetByKeys(StoreOf(s), redis, ctx, ks, fail))
GetWithPagination(s, ctx, c, lim, p, fail, turn, again) ==
    Returns(StoreGetWithPagination(StoreOf(s), redis, ctx, c, lim, p, fail, turn, again))
GetAll(s, ctx, p, fail, turn) == Returns(StoreGetAll(StoreOf(s), redis, ctx, p, fail, turn))
ExistsEntity(s, ctx, k, fail) == Returns(StoreExists(StoreOf(s), redis, ctx, k, fail))

\* the caller takes the result and goes on to its next call
Resume ==
    /\ pc = "returned"
    /\ pc' = "idle"
    /\ last' = NoCall
    /\ trace' = <<>>
    /\ UNCHANGED <<redis, ns, listeners, named, page, calls>>

Stores == DOMAIN ns

Init ==
    /\ redis = EmptyRedis
    /\ ns = [s \in {1} |-> <<"n">>]
    /\ listeners = [s \in {1} |-> StoreNew(s, EntityKindTest, <<"n">>).es.on]
    /\ pc = "idle"
    /\ last = NoCall
    /\ trace = <<>>
    /\ named = NoHistory
    /\ page = NoPage
    /\ calls = NoCalls

Next ==
    \/ \E s \in Stores, ctx \in Ctxs, fail \in 0..2, turn \in BOOLEAN :
          Flush(s, ctx, fail, turn)
    \/ \E s \in Stores, ctx \in Ctxs, e \in Entities, fail \in 0..1 : Add(s, ctx, e, fail)
    \/ \E s \in Stores, ctx \in Ctxs, es \in SeqsUpTo(BatchEntities, MaxBatch), fail \in 0..1 :
          AddBatch(s, ctx, es, fail)
    \/ \E s \in Stores, ctx \in Ctxs, k \in KeyInputs, fail \in 0..1 : Remove(s, ctx, k, fail)
    \/ \E s \in Stores, ctx \in Ctxs, ks \in SeqsUpTo(ListKeys, MaxBatch), fail \in 0..1 :
          RemoveByKeys(s, ctx, ks, fail)
    \/ \E s \in Stores, ctx \in Ctxs, p \in ParentInputs, fail \in 0..2, turn \in BOOLEAN :
          RemoveAll(s, ctx, p, fail, turn)
    \/ \E s \in Stores, ctx \in Ctxs, k \in KeyInputs, fail \in 0..1 : GetEntity(s, ctx, k, fail)
    \/ \E s \in Stores, ctx \in Ctxs, ks \in SeqsUpTo(ListKeys, MaxBatch), fail \in 0..1 :
          GetByKeys(s, ctx, ks, fail)
    \/ \E s \in Stores, ctx \in Ctxs, c \in 0..MaxCursor, lim \in LimitInputs,
          p \in ParentInputs, fail \in 0..2, turn \in BOOLEAN, again \in 0..MaxAgain :
          GetWithPagination(s, ctx, c, lim, p, fail, turn, again)
    \/ \E s \in Stores, ctx \in Ctxs, p \in ParentInputs, fail \in 0..2, turn \in BOOLEAN :
          GetAll(s, ctx, p, fail, turn)
    \/ \E s \in Stores, ctx \in Ctxs, k \in KeyInputs, fail \in 0..1 :
          ExistsEntity(s, ctx, k, fail)
    \/ Resume

Spec == Init /\ [][Next]_vars


(***************************************************************************)
(* Listeners: es.On<Event>().AddListener / RemoveListener /                *)
(* RemoveAllListeners.  A token is six random characters.                  *)
(***************************************************************************)
TokensOf(s) == UNION { Range(listeners[s][t].ls) : t \in Events }

ListenerCall(op, s, target, token, ok, e) ==
    /\ pc = "idle"
    /\ listeners' = [listeners EXCEPT ![s][target] = e]
    /\ last' = [NoCall EXCEPT !.op = op, !.store = s, !.target = target,
                              !.token = token, !.found = ok]
    /\ trace' = <<>>
    /\ pc' = "returned"
    /\ UNCHANGED <<redis, ns, named, page, calls>>

AddListenerTo(s, target, token) ==
    /\ token \notin TokensOf(s)
    /\ ListenerCall("AddListener", s, target, token, TRUE,
                    AddListener(listeners[s][target], token))

RemoveListenerFrom(s, target, token) ==
    ListenerCall("RemoveListener", s, target, token,
                 RemoveListener(listeners[s][target], token).ok,
                 RemoveListener(listeners[s][target], token).e)

RemoveAllListenersOf(s, target) ==
    ListenerCall("RemoveAllListeners", s, target, "",
                 RemoveAllListeners(listeners[s][target]).ok,
                 RemoveAllListeners(listeners[s][target]).e)

(***************************************************************************)
(* SpecEvents: one store with listeners coming and going                   *)
(***************************************************************************)
EventEntities == {Made(IdA, TenantT), Made(IdB, TenantT), ReservedEntity}
EventBatches == {<<Made(IdA, TenantT)>>, <<Made(IdA, TenantT), Made(IdB, TenantT)>>,
                 <<Made(IdB, TenantT), ReservedEntity>>, <<>>}
EventKeys == {GetKey(Made(IdA, TenantT)), GetKey(Made(IdB, TenantT)), <<"_","_","a">>, <<>>}
EventKeyLists == {<<GetKey(Made(IdA, TenantT))>>,
                  <<GetKey(Made(IdB, TenantT)), GetKey(Made(IdA, TenantT))>>,
                  <<AbsentKey, <<":","a">>>>, <<>>}

NextEvents ==
    \/ \E s \in Stores, target \in Events, token \in Tokens : AddListenerTo(s, target, token)
    \/ \E s \in Stores, target \in Events, token \in Tokens :
          RemoveListenerFrom(s, target, token)
    \/ \E s \in Stores, target \in Events : RemoveAllListenersOf(s, target)
    \/ \E s \in Stores, ctx \in Ctxs, fail \in 0..2 : Flush(s, ctx, fail, FALSE)
    \/ \E s \in Stores, ctx \in Ctxs, e \in EventEntities, fail \in 0..1 : Add(s, ctx, e, fail)
    \/ \E s \in Stores, ctx \in Ctxs, es \in EventBatches, fail \in 0..1 :
          AddBatch(s, ctx, es, fail)
    \/ \E s \in Stores, ctx \in Ctxs, k \in EventKeys, fail \in 0..1 : Remove(s, ctx, k, fail)
    \/ \E s \in Stores, ctx \in Ctxs, ks \in EventKeyLists, fail \in 0..1 :
          RemoveByKeys(s, ctx, ks, fail)
    \/ \E s \in Stores, ctx \in Ctxs, fail \in 0..2 :
          RemoveAll(s, ctx, ParentOf(TenantT), fail, FALSE)
    \/ Resume

SpecEvents == Init /\ [][NextEvents]_vars


(***************************************************************************)
(* SpecNs: two stores of one kind over one external store, made with       *)
(* different valid namespaces                                              *)
(***************************************************************************)
Namespaces == {<<"n">>, <<"m">>, <<"N">>, <<"?">>, <<>>}
NsEntities == {Made(IdA, TenantT), Made(IdB, TenantT)}
NsBatches == {<<Made(IdA, TenantT), Made(IdB, TenantT)>>, <<Made(IdB, TenantT)>>}
NsKeys == { GetKey(e) : e \in NsEntities }
NsKeyLists == {<<GetKey(Made(IdA, TenantT)), GetKey(Made(IdB, TenantT))>>,
               <<GetKey(Made(IdA, TenantT))>>}

InitNs ==
    /\ redis = EmptyRedis
    /\ ns \in { f \in [{1, 2} -> Namespaces] :
                  /\ f[1] # f[2]
                  /\ \A s \in {1, 2} : StoreNew(s, EntityKindTest, f[s]).err = "" }
    /\ listeners = [s \in {1, 2} |-> StoreNew(s, EntityKindTest, ns[s]).es.on]
    /\ pc = "idle"
    /\ last = NoCall
    /\ trace = <<>>
    /\ named = NoHistory
    /\ page = NoPage
    /\ calls = NoCalls

NextNs ==
    \/ \E s \in Stores, ctx \in Ctxs, fail \in 0..2, turn \in BOOLEAN :
          Flush(s, ctx, fail, turn)
    \/ \E s \in Stores, ctx \in Ctxs, e \in NsEntities, fail \in 0..1 : Add(s, ctx, e, fail)
    \/ \E s \in Stores, ctx \in Ctxs, es \in NsBatches, fail \in 0..1 :
          AddBatch(s, ctx, es, fail)
    \/ \E s \in Stores, ctx \in Ctxs, k \in NsKeys, fail \in 0..1 : Remove(s, ctx, k, fail)
    \/ \E s \in Stores, ctx \in Ctxs, ks \in NsKeyLists, fail \in 0..1 :
          RemoveByKeys(s, ctx, ks, fail)
    \/ \E s \in Stores, ctx \in Ctxs, fail \in 0..2, turn \in BOOLEAN :
          RemoveAll(s, ctx, ParentOf(TenantT), fail, turn)
    \/ Resume

SpecNs == InitNs /\ [][NextNs]_vars

(***************************************************************************)
(* SpecSeq: a sequential history of Add, AddBatch, Remove and RemoveByKeys *)
(* on one store, recorded in named, with Exists asked in between           *)
(***************************************************************************)
SeqEntities == {Made(IdA, TenantT), Made(IdUpperA, TenantT), Made(IdB, TenantT),
                Made(IdB, TenantU), ReservedEntity}

InitSeq ==
    /\ redis = EmptyRedis
    /\ ns = [s \in {1} |-> <<"n">>]
    /\ listeners = [s \in {1} |-> StoreNew(s, EntityKindTest, <<"n">>).es.on]
    /\ pc = "idle"
    /\ last = NoCall
    /\ trace = <<>>
    /\ named = [NoHistory EXCEPT !.on = TRUE]
    /\ page = NoPage
    /\ calls = NoCalls

NextSeq ==
    \/ \E s \in Stores, ctx \in Ctxs, e \in SeqEntities, fail \in 0..1 : Add(s, ctx, e, fail)
    \/ \E s \in Stores, ctx \in Ctxs, es \in SeqsUpTo(SeqEntities, MaxBatch), fail \in 0..1 :
          AddBatch(s, ctx, es, fail)
    \/ \E s \in Stores, ctx \in Ctxs, k \in KeyInputs, fail \in 0..1 : Remove(s, ctx, k, fail)
    \/ \E s \in Stores, ctx \in Ctxs, ks \in SeqsUpTo(ListKeys, MaxBatch), fail \in 0..1 :
          RemoveByKeys(s, ctx, ks, fail)
    \/ \E s \in Stores, ctx \in Ctxs, k \in KeyInputs, fail \in 0..1 :
          ExistsEntity(s, ctx, k, fail)
    \/ Resume

SpecSeq == InitSeq /\ [][NextSeq]_vars


(***************************************************************************)
(* SpecPage: a caller pages through one scope of a store that nothing      *)
(* else writes to, passing back the cursor it got; no call fails.  The     *)
(* loop goes on until the cursor is 0: FairPage says that it does go on.   *)
(***************************************************************************)
PageEntities == {Made(IdA, TenantT), Made(IdB, TenantT), Made(IdC, TenantT),
                 Made(IdA, TenantU)}
PageLimits == {-1, 0, 1, 2, pageMaxLimit - 1, pageMaxLimit, pageMaxLimit + 1}

\* the keys of the entities that a page holds
KeysOfAll(entities) == { GetKey(entities[i]) : i \in 1..Len(entities) }

\* the loop takes a page: its entities' keys are seen, its cursor is the next
PageTurn(o) ==
    /\ redis' = o.redis
    /\ last' = o.last
    /\ trace' = o.trace
    /\ page' = IF o.last.err # "" THEN page
               ELSE [page EXCEPT !.cursor = o.last.next,
                                 !.seen = @ \cup KeysOfAll(o.last.out),
                                 !.twice = @ \/ KeysOfAll(o.last.out) \cap page.seen # {},
                                 !.done = (o.last.next = 0)]
    /\ UNCHANGED <<ns, listeners, pc, named, calls>>

\* GetWithPagination on the loop's store, for every contents, cursor, limit,
\* scope and scan that the loop can meet
PageStore == [id |-> 1, entityKind |-> EntityKindTest, namespace |-> <<"n">>,
              on |-> StoreNew(1, EntityKindTest, <<"n">>).es.on]
PageStores ==
    { StoreAddBatch(PageStore, EmptyRedis, "ctx1", SeqOf(stored), 0).redis :
          stored \in SUBSET PageEntities }
PageParents == {ParentOf(TenantT), ParentOf(TenantU)}
PageAnswers ==
    [r \in PageStores, cursor \in 0..Cardinality(PageEntities), lim \in PageLimits,
     p \in PageParents, turn \in BOOLEAN, again \in 0..MaxAgain |->
        StoreGetWithPagination(PageStore, r, "ctx1", cursor, lim, p, 0, turn, again)]

PageStep(again) ==
    /\ pc = "idle"
    /\ page.on
    /\ ~page.done
    /\ PageTurn(PageAnswers[redis, page.cursor, page.limit, page.parent, page.turn, again])

InitPage ==
    /\ ns = [s \in {1} |-> PageStore.namespace]
    /\ listeners = [s \in {1} |-> PageStore.on]
    /\ pc = "idle"
    /\ last = NoCall
    /\ trace = <<>>
    /\ named = NoHistory
    /\ calls = NoCalls
    /\ \E stored \in SUBSET PageEntities, p \in PageParents, lim \in PageLimits,
          turn \in BOOLEAN :
          /\ redis = StoreAddBatch(PageStore, EmptyRedis, "ctx1", SeqOf(stored), 0).redis
          /\ page = [NoPage EXCEPT !.on = TRUE, !.store = 1, !.parent = p, !.limit = lim,
                                   !.turn = turn, !.stored = stored]

NextPage == \E again \in 0..MaxAgain : PageStep(again)

SpecPage == InitPage /\ [][NextPage]_vars
FairPage == SpecPage /\ WF_vars(NextPage)


(***************************************************************************)
(* Properties                                                              *)
(***************************************************************************)
\* the call that has just returned without error or panic
Succeeded(op) == pc = "returned" /\ last.op = op /\ last.err = "" /\ ~last.panic

\* what a read of store s would answer over the contents r, no call failing
ReadGet(s, r, k) == StoreGet(StoreOf(s), r, "ctx1", k, 0).last
ReadExists(s, r, k) == StoreExists(StoreOf(s), r, "ctx1", k, 0).last
ReadGetByKeys(s, r, ks) == StoreGetByKeys(StoreOf(s), r, "ctx1", ks, 0).last
ReadGetAll(s, r, p, turn) == StoreGetAll(StoreOf(s), r, "ctx1", p, 0, turn).last

\* C1: after a successful Add of an entity, with no write or removal of its
\* key in between, Get of that key returns no error and an entity equal to it
SameEntity(got, entity) ==
    /\ got.err = ""
    /\ ~got.panic
    /\ got.out = <<entity>>
C1_AddThenGet ==
    (Succeeded("Add") /\ GetKey(last.ents[1]) # <<>>)
        => SameEntity(ReadGet(last.store, redis, GetKey(last.ents[1])), last.ents[1])
\* an entity whose Id is upper case (its key is lower case) has been added
C1_Witness ==
    /\ Succeeded("Add")
    /\ last.ents[1] = Made(IdUpperA, TenantT)
    /\ GetKey(last.ents[1]) # <<>>
    /\ ReadGet(last.store, redis, GetKey(last.ents[1])).out = <<Made(IdUpperA, TenantT)>>


\* C2: after a successful flush of a store with a non-empty namespace, Exists
\* is false for every key added before and GetAll is empty for every parent
Parents == {<<>>, ParentOf(TenantT), ParentOf(TenantU)}
C2_FlushLeavesNothing ==
    Succeeded("flush") =>
        /\ \A k \in EntityKeys : ~ReadExists(last.store, redis, k).found
        /\ \A p \in Parents, turn \in BOOLEAN : ReadGetAll(last.store, redis, p, turn).out = <<>>

\* C3: of two stores of one kind made with different valid namespaces, no
\* Add, AddBatch, Remove, RemoveByKeys, RemoveAll or flush on the one changes
\* what Get, Exists, GetByKeys or GetAll answer on the other
Writes == {"Add", "AddBatch", "Remove", "RemoveByKeys", "RemoveAll", "flush"}
ReadsOf(s, r) ==
    [get    |-> [k \in NsKeys |-> ReadGet(s, r, k).out],
     exists |-> [k \in NsKeys |-> ReadExists(s, r, k).found],
     byKeys |-> [ks \in NsKeyLists |-> ReadGetByKeys(s, r, ks).out],
     all    |-> [p \in Parents |-> Range(ReadGetAll(s, r, p, FALSE).out)]]
C3_Isolation ==
    \A s \in Stores :
        (pc = "returned" /\ last.op \in Writes /\ last.store # s)
            => ReadsOf(s, redis) = ReadsOf(s, last.before)


\* C4: a successful Add, AddBatch, Remove or RemoveByKeys emits its event
\* exactly once, after the write succeeded and before it returns, with the
\* caller's context and the keys, to every registered listener; a call that
\* returns an error emits nothing
Mutations == {"Add", "AddBatch", "Remove", "RemoveByKeys"}
EventOf(op) == IF op \in {"Add", "AddBatch"} THEN "EntitiesAdded" ELSE "EntitiesRemoved"
Emits(t) == { i \in 1..Len(t) : t[i].kind = "emit" }
\* the trace of a call that wrote and then emitted once: the write that
\* succeeded, then the one emit
WroteThenEmitted ==
    /\ Len(trace) = 2
    /\ trace[1].kind = "io" /\ trace[1].ok
    /\ trace[1].name \in {"SET", "MSET", "DEL"}
    /\ trace[2] = [kind |-> "emit", name |-> EventOf(last.op), ctx |-> last.ctx,
                   keys |-> last.keys,
                   ok |-> listeners[last.store][EventOf(last.op)].ls # <<>>,
                   to |-> listeners[last.store][EventOf(last.op)].ls]
\* as stated: every successful call emits
C4_EverySuccessEmits ==
    (pc = "returned" /\ last.op \in Mutations /\ ~last.panic)
        => IF last.err = "" THEN WroteThenEmitted ELSE Emits(trace) = {}
\* a call with nothing to write or remove: an empty batch or key list, an empty key to Remove
NothingToDo ==
    \/ last.keys = <<>>
    \/ last.op = "Remove" /\ last.keys = <<<<>>>>
\* amended: every successful call that has something to write or remove emits;
\* one that has nothing to do, or returns an error, emits nothing
C4_Emits ==
    (pc = "returned" /\ last.op \in Mutations /\ ~last.panic)
        => IF last.err = "" /\ ~NothingToDo THEN WroteThenEmitted
           ELSE Emits(trace) = {}
\* RemoveByKeys of two keys has told two listeners, in the order they registered
C4_Witness ==
    /\ Succeeded("RemoveByKeys")
    /\ Len(last.keys) = 2
    /\ WroteThenEmitted
    /\ Len(trace[2].to) = 2
    /\ trace[2].ctx = "ctx2"


\* a key that does not build: reserved prefix, or not a valid Redis key
Invalid(k) == ValidateKeyFragment(k) # ""

\* C5: an AddBatch with an entity whose key is invalid or that does not
\* serialize returns an error, writes none of the batch's entities, the valid
\* ones before the bad one included, and emits no Added event
BadEntity(e) == GetKey(e) = <<>> \/ Invalid(GetKey(e)) \/ ProtoMarshal(e).err # ""
C5_BatchAborts ==
    (pc = "returned" /\ last.op = "AddBatch"
        /\ \E i \in 1..Len(last.ents) : BadEntity(last.ents[i]))
        => /\ last.err # ""
           /\ redis = last.before
           /\ trace = <<>>
\* a batch whose first entity is valid and whose second is not has returned
C5_Witness ==
    /\ pc = "returned" /\ last.op = "AddBatch"
    /\ Len(last.ents) = 2
    /\ ~BadEntity(last.ents[1])
    /\ BadEntity(last.ents[2])
    /\ last.err # ""
    /\ ~ReadExists(last.store, redis, GetKey(last.ents[1])).found

\* C6: an operation in which key construction fails returns an error without
\* a call to the external store and without an event
KeyFails(l) ==
    CASE l.op = "Add" -> l.keys[1] = <<>> \/ Invalid(l.keys[1])
      [] l.op = "AddBatch" -> \E i \in 1..Len(l.keys) : l.keys[i] = <<>> \/ Invalid(l.keys[i])
      [] l.op \in {"Remove", "Get", "Exists"} -> l.keys[1] # <<>> /\ Invalid(l.keys[1])
      [] l.op = "RemoveByKeys" ->
            \E i \in 1..Len(l.keys) : l.keys[i] = <<>> \/ Invalid(l.keys[i])
      [] l.op = "GetByKeys" -> \E i \in 1..Len(l.keys) : l.keys[i] # <<>> /\ Invalid(l.keys[i])
      [] l.op \in {"GetAll", "RemoveAll", "GetWithPagination"} ->
            l.parent # <<>> /\ Invalid(l.parent)
      [] OTHER -> FALSE
C6_KeyErrorBeforeIo ==
    (pc = "returned" /\ KeyFails(last))
        => /\ last.err # ""
           /\ ~last.panic
           /\ trace = <<>>
           /\ redis = last.before
\* Exists of a key with the reserved prefix has returned, over a store that holds entities
C6_Witness ==
    /\ pc = "returned" /\ last.op = "Exists"
    /\ last.keys = <<<<"_","_","a">>>>
    /\ last.err # ""
    /\ redis # EmptyRedis

\* C7: after any sequential history of successful Add, AddBatch, Remove and
\* RemoveByKeys calls on one store, Exists of a key is true if and only if the
\* last of the calls that named the key was an Add or an AddBatch
HistoryKeys == EntityKeys \cup {AbsentKey} \cup DOMAIN named.m
C7_ExistsIffLastAdded ==
    named.on =>
        \A k \in HistoryKeys :
            ReadExists(1, redis, k).found <=> (k \in DOMAIN named.m /\ named.m[k] = "added")
\* the last call that named one key removed it, and an AddBatch has just
\* added another that the store did not hold
C7_Witness ==
    /\ named.on
    /\ pc = "returned" /\ last.op = "AddBatch" /\ last.err = ""
    /\ GetKey(Made(IdB, TenantT)) \in Range(last.ret)
    /\ GetKey(Made(IdB, TenantT)) \notin DOMAIN last.before
    /\ GetKey(Made(IdA, TenantT)) \in DOMAIN named.m
    /\ named.m[GetKey(Made(IdA, TenantT))] = "removed"
    /\ ~ReadExists(1, redis, GetKey(Made(IdA, TenantT))).found
    /\ ReadExists(1, redis, GetKey(Made(IdB, TenantT))).found

\* C10: AddBatch of the same entities, their keys pairwise distinct, a second
\* time leaves the contents as the first call left them, and exactly those
\* entities are retrievable through GetByKeys and GetAll
DistinctKeys(ks) == \A i, j \in 1..Len(ks) : ks[i] = ks[j] => i = j
SecondAddBatch == StoreAddBatch(StoreOf(last.store), redis, last.ctx, last.ents, 0)
C10_AddBatchIdempotent ==
    (Succeeded("AddBatch") /\ DistinctKeys(last.keys))
        => /\ SecondAddBatch.last.err = ""
           /\ SecondAddBatch.redis = redis
           /\ Range(ReadGetByKeys(last.store, SecondAddBatch.redis, last.keys).out)
                  = Range(last.ents)
           /\ Len(ReadGetByKeys(last.store, SecondAddBatch.redis, last.keys).out)
                  = Len(last.ents)
           /\ \A p \in Parents :
                  Len(ReadGetAll(last.store, SecondAddBatch.redis, p, FALSE).out)
                      = Len(ReadGetAll(last.store, redis, p, FALSE).out)
\* two entities with different keys have been added in one batch, over a
\* store that held one of them with other content
C10_Witness ==
    /\ Succeeded("AddBatch")
    /\ last.ents = <<Made(IdUpperA, TenantT), Made(IdB, TenantT)>>
    /\ last.before # EmptyRedis
    /\ last.before # redis
    /\ SecondAddBatch.redis = redis


\* C8: a caller that pages from cursor 0 and passes back each cursor it gets,
\* over a store nothing writes to, gets cursor 0 in the end, whatever the limit
C8_PaginationTerminates == <>(page.done)
\* three entities of one scope have been paged through one slot at a time
C8_Witness ==
    /\ page.done
    /\ page.limit = 1
    /\ Cardinality(page.seen) = 3
    /\ last.op = "GetWithPagination" /\ last.next = 0 /\ last.cursor # 0

\* C9: the entities of all the pages from cursor 0 until the cursor is 0 again,
\* taken by key, are exactly the stored entities of the scope, none missing
\* and none from another scope, also when pages repeat keys
InScope(k, parentKey) ==
    HasPrefix(k, parentKey \o KeyFragmentDelimiter \o EntityKindTest \o KeyFragmentDelimiter)
IoOk(t) == \A i \in 1..Len(t) : t[i].kind = "io" => t[i].ok
\* every key of the list is non-empty and builds
ValidKeys(ks) == \A i \in 1..Len(ks) : ks[i] # <<>> /\ ~Invalid(ks[i])
\* C11: GetByKeys of valid non-empty keys returns, without error, one decoded
\* entity for each input key that exists, in input order, and leaves out the
\* keys that do not exist; the result is never longer than the input
C11_GetByKeysInOrder ==
    (pc = "returned" /\ last.op = "GetByKeys" /\ ValidKeys(last.keys) /\ IoOk(trace))
        => /\ last.err = "" /\ ~last.panic
           /\ Len(last.out) <= Len(last.keys)
           /\ [i \in 1..Len(last.out) |-> GetKey(last.out[i])]
                  = SelectSeq(last.keys, LAMBDA k : ReadExists(last.store, redis, k).found)
           /\ \A i \in 1..Len(last.out) :
                  <<last.out[i]>> = ReadGet(last.store, redis, GetKey(last.out[i])).out
\* of a key the store does not hold and one it holds, in this order, the
\* entity of the second has come back alone
C11_Witness ==
    /\ Succeeded("GetByKeys")
    /\ last.keys = <<AbsentKey, GetKey(Made(IdB, TenantT))>>
    /\ last.out = <<Made(IdB, TenantT)>>
    /\ Cardinality(DOMAIN redis) >= 2


\* C12: Get of a valid non-empty key that the store does not hold returns no
\* entity and the not-found error, leaves the store as it was, and returns that
\* error in no other case: not when the command fails, not when decoding fails
C12_GetNotFound ==
    (pc = "returned" /\ last.op = "Get" /\ ValidKeys(last.keys))
        => /\ (IoOk(trace) /\ ~ReadExists(last.store, last.before, last.keys[1]).found)
                => /\ last.err = ErrKeyNotFound
                   /\ last.out = <<>>
                   /\ ~last.panic
                   /\ redis = last.before
           /\ last.err = ErrKeyNotFound
                => /\ IoOk(trace)
                   /\ ~ReadExists(last.store, last.before, last.keys[1]).found
\* Get of the key of an entity that was removed, over a store that holds others
C12_Witness ==
    /\ pc = "returned" /\ last.op = "Get"
    /\ last.keys = <<GetKey(Made(IdA, TenantT))>>
    /\ last.err = ErrKeyNotFound
    /\ last.out = <<>>
    /\ redis # EmptyRedis
    /\ redis = last.before


(***************************************************************************)
(* SpecScope: two stores of one kind over one external store, entities of  *)
(* several parents in each, and RemoveAll of one parent's scope            *)
(***************************************************************************)
TenantQ == <<"?">>
ScopeNamespaces == {<<<<"n">>, <<"m">>>>, <<<<"n">>, <<"N">>>>}
ScopeEntities == {Made(IdA, TenantT), Made(IdB, TenantT), Made(IdA, TenantU)}
ScopeParents == {ParentOf(TenantT), ParentOf(TenantU), ParentOf(TenantQ)}

InitScope ==
    /\ redis = EmptyRedis
    /\ ns \in { [s \in {1, 2} |-> pair[s]] : pair \in ScopeNamespaces }
    /\ listeners = [s \in {1, 2} |-> StoreNew(s, EntityKindTest, ns[s]).es.on]
    /\ pc = "idle"
    /\ last = NoCall
    /\ trace = <<>>
    /\ named = NoHistory
    /\ page = NoPage
    /\ calls = NoCalls

NextScope ==
    \/ \E s \in Stores, e \in ScopeEntities, fail \in 0..1 : Add(s, "ctx1", e, fail)
    \/ \E s \in Stores, p \in ScopeParents, fail \in 0..2, turn \in BOOLEAN :
          RemoveAll(s, "ctx1", p, fail, turn)
    \/ \E s \in Stores, p \in ScopeParents \cup {<<>>}, fail \in 0..2, turn \in BOOLEAN :
          GetAll(s, "ctx1", p, fail, turn)
    \/ Resume

SpecScope == InitScope /\ [][NextScope]_vars

\* C13: after RemoveAll of a parent key returns without error, GetAll of that
\* parent key returns no entity, and every entity stored under another parent
\* key or in another namespace is retrievable as it was before
C13_RemoveAllScope ==
    Succeeded("RemoveAll") =>
        /\ \A turn \in BOOLEAN :
               ReadGetAll(last.store, redis, last.parent, turn).out = <<>>
        /\ \A s \in Stores, e \in ScopeEntities :
               (s # last.store \/ ParentOf(e.TenantId) # last.parent)
                   => (ReadGet(s, last.before, GetKey(e)).err = ""
                           => ReadGet(s, redis, GetKey(e)) = ReadGet(s, last.before, GetKey(e)))


\* C14: RemoveByKeys of a list of valid keys, some held and some not, returns
\* no error, removes every key of the list that the store held and no other,
\* and emits one Removed event with the whole input list in input order
C14_RemoveByKeysMixed ==
    (pc = "returned" /\ last.op = "RemoveByKeys" /\ last.keys # <<>>
        /\ ValidKeys(last.keys) /\ IoOk(trace))
        => /\ last.err = "" /\ ~last.panic
           /\ \A i \in 1..Len(last.keys) : ~ReadExists(last.store, redis, last.keys[i]).found
           /\ \A k \in EntityKeys \ Range(last.keys) :
                  ReadGet(last.store, redis, k) = ReadGet(last.store, last.before, k)
           /\ Cardinality(Emits(trace)) = 1
           /\ trace[Len(trace)].kind = "emit"
           /\ trace[Len(trace)].name = "EntitiesRemoved"
           /\ trace[Len(trace)].ctx = last.ctx
           /\ trace[Len(trace)].keys = last.keys
\* a key that the store did not hold and one it held have been removed
\* together, and the event names both
C14_Witness ==
    /\ Succeeded("RemoveByKeys")
    /\ last.keys = <<AbsentKey, GetKey(Made(IdA, TenantT))>>
    /\ ReadExists(last.store, last.before, GetKey(Made(IdA, TenantT))).found
    /\ ~ReadExists(last.store, redis, GetKey(Made(IdA, TenantT))).found
    /\ redis # EmptyRedis
    /\ trace[Len(trace)].keys = <<AbsentKey, GetKey(Made(IdA, TenantT))>>


\* a call with an empty input: an empty key to Remove, Get or Exists, an empty
\* batch or key list to AddBatch, GetByKeys or RemoveByKeys
EmptyInput(l) ==
    \/ l.op \in {"Remove", "Get", "Exists"} /\ l.keys = <<<<>>>>
    \/ l.op \in {"AddBatch", "GetByKeys", "RemoveByKeys"} /\ l.keys = <<>>

\* C15: a call with an empty input returns no error and nothing (false for
\* Exists), makes no call to the external store and emits no event
C15_EmptyInputNoOp ==
    (pc = "returned" /\ EmptyInput(last))
        => /\ last.err = "" /\ ~last.panic
           /\ last.out = <<>> /\ last.ret = <<>> /\ ~last.found
           /\ trace = <<>>
           /\ redis = last.before
\* Remove of the empty key has returned over a store that holds entities
C15_Witness ==
    /\ Succeeded("Remove")
    /\ last.keys = <<<<>>>>
    /\ trace = <<>>
    /\ redis # EmptyRedis
    /\ redis = last.before


\* C16: Add of an entity whose key is empty does not touch the external
\* store: nothing is written and no Added event is emitted
AddOfEmptyKey == pc = "returned" /\ last.op = "Add" /\ last.keys = <<<<>>>>
Untouched == ~last.panic /\ trace = <<>> /\ redis = last.before /\ last.ret = <<>>
\* as stated: and it returns no error
C16_AddEmptyKeyNoError == AddOfEmptyKey => (last.err = "" /\ Untouched)
\* amended: and it returns the error of the key that does not build
C16_AddEmptyKeyFails == AddOfEmptyKey => (last.err # "" /\ Untouched)
\* Add of an entity without a key has returned over a store that holds entities
C16_Witness ==
    /\ AddOfEmptyKey
    /\ last.ents = <<ZeroEntity>>
    /\ last.err = "keyfactory: key must not be empty"
    /\ redis # EmptyRedis


\* C17: GetByKeys of a list with empty elements among valid keys skips the
\* empty elements and returns, without error or crash, the entities of the
\* other keys that exist; RemoveByKeys of such a list returns no error
EmptyAmongValid(ks) ==
    /\ \E i \in 1..Len(ks) : ks[i] = <<>>
    /\ \E i \in 1..Len(ks) : ks[i] # <<>>
    /\ \A i \in 1..Len(ks) : ks[i] # <<>> => ~Invalid(ks[i])
C17_EmptyElementsSkipped ==
    (pc = "returned" /\ last.op \in {"GetByKeys", "RemoveByKeys"}
        /\ EmptyAmongValid(last.keys) /\ IoOk(trace))
        => /\ last.err = "" /\ ~last.panic
           /\ last.op = "GetByKeys"
                => [i \in 1..Len(last.out) |-> GetKey(last.out[i])]
                       = SelectSeq(last.keys,
                                   LAMBDA k : ReadExists(last.store, redis, k).found)


(***************************************************************************)
(* SpecConc: two callers in Add or AddBatch on one store at the same time. *)
(* A call is a sequence of steps (entity_store.go 194-245), the steps of   *)
(* the callers interleave; a Redis command and an Emit (under the          *)
(* emitter's lock) are one step each.  calls.kbs holds the key builders    *)
(* that NewKeyBuilder has made, calls.of[p] what caller p holds.           *)
(***************************************************************************)
Callers == {1, 2}
CtxOf(p) == IF p = 1 THEN "ctx1" ELSE "ctx2"

NoLocal == [at |-> "idle", batch |-> FALSE, ents |-> <<>>, i |-> 0, kb |-> 0,
            keys |-> <<>>, entityKeys |-> <<>>, data |-> <<>>, err |-> "", ret |-> <<>>]

\* a NewKeyBuilder that hands every caller the one builder of the store
SharedKeyBuilder(es, kbs) ==
    IF kbs = <<>> THEN [kbs |-> <<NewKeyBuilderWithNamespace(es.namespace)>>, id |-> 1]
    ELSE [kbs |-> kbs, id |-> 1]
\* es.NewKeyBuilder(): a builder of its own for the call
StoreNewKeyBuilder(es, kbs) ==
    [kbs |-> Append(kbs, NewKeyBuilderWithNamespace(es.namespace)), id |-> Len(kbs) + 1]

ConcInputs(p) ==
    IF p = 1 THEN {<<Made(IdA, TenantT)>>, <<Made(IdA, TenantT), Made(IdB, TenantT)>>, <<>>}
    ELSE {<<Made(IdA, TenantU)>>, <<Made(IdC, TenantT), Made(IdA, TenantU)>>,
          <<Made(IdB, TenantT)>>, <<ReservedEntity>>}

\* caller p goes on: its locals, the builders, the external store, the trace
ConcStep(p, loc, kbs, r, t) ==
    /\ calls' = [kbs |-> kbs, of |-> [calls.of EXCEPT ![p] = loc]]
    /\ redis' = r
    /\ trace' = t
    /\ UNCHANGED <<ns, listeners, pc, last, named, page>>

\* Add(ctx, entity, 0) or AddBatch(ctx, entities, 0) is called: the empty
\* batch returns, any other call makes its builder
ConcCall(p, batch, ents) ==
    LET made(a) ==
            ConcStep(p, [NoLocal EXCEPT !.at = "withKey", !.batch = batch, !.ents = ents,
                                        !.i = 1, !.kb = a.id], a.kbs, redis, trace)
    IN  /\ calls.of[p].at = "idle"
        /\ batch \/ Len(ents) = 1
        /\ IF batch /\ Len(ents) = 0
           THEN ConcStep(p, [NoLocal EXCEPT !.at = "done", !.batch = TRUE], calls.kbs,
                         redis, trace)
           ELSE made(StoreNewKeyBuilder(StoreOf(1), calls.kbs))

\* kb.WithKey(entity.GetKey())
ConcWithKey(p) ==
    LET c == calls.of[p]
    IN  /\ c.at = "withKey"
        /\ ConcStep(p, [c EXCEPT !.at = "build"],
                    [calls.kbs EXCEPT ![c.kb] = WithKey(@, GetKey(c.ents[c.i]))],
                    redis, trace)

\* key, err := kb.BuildAndReset()
ConcBuild(p) ==
    LET c == calls.of[p]
        built(b) ==
            ConcStep(p, IF b.res.err # "" THEN [c EXCEPT !.at = "done", !.err = b.res.err]
                        ELSE [c EXCEPT !.at = "marshal", !.keys = Append(@, b.res.key)],
                     [calls.kbs EXCEPT ![c.kb] = b.kb], redis, trace)
    IN  /\ c.at = "build"
        /\ built(NsBuildAndReset(calls.kbs[c.kb]))

\* encoder.ProtoMarshal of the entity, and on to the next entity or to the write
ConcMarshal(p) ==
    LET c == calls.of[p]
        marshalled(m) ==
            ConcStep(p, IF m.err # "" THEN [c EXCEPT !.at = "done", !.err = m.err]
                        ELSE [c EXCEPT !.at = IF c.i < Len(c.ents) THEN "withKey" ELSE "put",
                                       !.i = @ + 1,
                                       !.data = Append(@, m.data),
                                       !.entityKeys = Append(@, GetKey(c.ents[c.i]))],
                     calls.kbs, redis, trace)
    IN  /\ c.at = "marshal"
        /\ marshalled(ProtoMarshal(c.ents[c.i]))

\* es.dsClient.Put or PutMulti
ConcPut(p, ok) ==
    LET c == calls.of[p]
        written(w) ==
            ConcStep(p, IF w.err # "" THEN [c EXCEPT !.at = "done", !.err = w.err]
                        ELSE [c EXCEPT !.at = "emit"],
                     calls.kbs, w.redis, trace \o w.io)
    IN  /\ c.at = "put"
        /\ written(IF c.batch THEN PutMulti(redis, CtxOf(p), c.keys, c.data, ok)
                   ELSE Put(redis, CtxOf(p), c.keys[1], c.data[1], ok))

\* es.onAdded.emit(ctx, keys)
ConcEmit(p) ==
    LET c == calls.of[p]
    IN  /\ c.at = "emit"
        /\ ConcStep(p, [c EXCEPT !.at = "return"], calls.kbs, redis,
                    Append(trace, emit(StoreOf(1), "EntitiesAdded", CtxOf(p), c.entityKeys)))

\* the call returns the entity keys
ConcReturn(p) ==
    LET c == calls.of[p]
    IN  /\ c.at = "return"
        /\ ConcStep(p, [c EXCEPT !.at = "done", !.ret = c.entityKeys], calls.kbs, redis, trace)

InitConc ==
    /\ redis = EmptyRedis
    /\ ns = [s \in {1} |-> <<"n">>]
    /\ listeners = [s \in {1} |->
                       [StoreNew(s, EntityKindTest, <<"n">>).es.on EXCEPT
                            !["EntitiesAdded"] = AddListener(@, "tok1")]]
    /\ pc = "idle"
    /\ last = NoCall
    /\ trace = <<>>
    /\ named = NoHistory
    /\ page = NoPage
    /\ calls = [kbs |-> <<>>, of |-> [p \in Callers |-> NoLocal]]

NextConc ==
    \/ \E p \in Callers, batch \in BOOLEAN :
          \E ents \in ConcInputs(p) : ConcCall(p, batch, ents)
    \/ \E p \in Callers : ConcWithKey(p)
    \/ \E p \in Callers : ConcBuild(p)
    \/ \E p \in Callers : ConcMarshal(p)
    \/ \E p \in Callers, ok \in BOOLEAN : ConcPut(p, ok)
    \/ \E p \in Callers : ConcEmit(p)
    \/ \E p \in Callers : ConcReturn(p)

SpecConc == InitConc /\ [][NextConc]_vars



\* C18: when two callers are in Add or AddBatch on one store at the same time,
\* for entities with distinct keys, then under every interleaving both calls
\* succeed, the entities of both are retrievable under their own keys, and each
\* call emits one Added event with its own keys only; no call builds a key from
\* what the other gave its builder
ConcKeys(p) == [i \in 1..Len(calls.of[p].ents) |-> GetKey(calls.of[p].ents[i])]
ConcEmits(p) == { i \in Emits(trace) : trace[i].ctx = CtxOf(p) }
ConcDistinct ==
    /\ \A p \in Callers :
           /\ calls.of[p].ents # <<>>
           /\ DistinctKeys(ConcKeys(p))
           /\ \A i \in 1..Len(calls.of[p].ents) : ~BadEntity(calls.of[p].ents[i])
    /\ Range(ConcKeys(1)) \cap Range(ConcKeys(2)) = {}
C18_ConcurrentAdds ==
    /\ \A p \in DOMAIN calls.of : \A j \in 1..Len(calls.of[p].keys) :
           calls.of[p].keys[j] = NewKey(ConcKeys(p)[j], ns[1])
    /\ (calls.of # <<>> /\ (\A p \in Callers : calls.of[p].at = "done")
            /\ ConcDistinct /\ IoOk(trace))
           => \A p \in Callers :
                  /\ calls.of[p].err = ""
                  /\ calls.of[p].ret = ConcKeys(p)
                  /\ \A i \in 1..Len(calls.of[p].ents) :
                         ReadGet(1, redis, ConcKeys(p)[i]).out = <<calls.of[p].ents[i]>>
                  /\ Cardinality(ConcEmits(p)) = 1
                  /\ \A i \in ConcEmits(p) :
                         /\ trace[i].name = "EntitiesAdded"
                         /\ trace[i].keys = ConcKeys(p)
                         /\ trace[i].to = <<"tok1">>
\* an AddBatch of two entities and an Add of a third have both returned, the
\* second caller's write and event between the first caller's write and event
C18_Witness ==
    /\ calls.of # <<>>
    /\ \A p \in Callers : calls.of[p].at = "done" /\ calls.of[p].err = ""
    /\ Len(calls.of[1].ents) = 2 /\ calls.of[1].batch
    /\ Len(calls.of[2].ents) = 1 /\ ~calls.of[2].batch
    /\ Len(calls.kbs) = 2
    /\ Len(trace) = 4
    /\ trace[1].ctx = "ctx1" /\ trace[2].ctx = "ctx2"
    /\ trace[3].ctx = "ctx2" /\ trace[4].ctx = "ctx1"
    /\ Cardinality(DOMAIN redis) = 3


(***************************************************************************)
(* SpecKeys: one KeyBuilder (entity_store.go 582-649) under its setters,   *)
(* Reset, Build and BuildAndReset.  calls.kbs[1] is the builder; last is   *)
(* what Build or BuildAndReset was given (keys: key, parent key, wildcard, *)
(* namespace) and what it returned (err, out).                             *)
(***************************************************************************)
\* LongestKey is as long as rediskey.Validate allows, TooLongKey one longer
LongestKey == [i \in 1..keyMaxLength |-> "a"]
TooLongKey == [i \in 1..(keyMaxLength + 1) |-> "a"]
KbKeys == {<<>>, <<"a">>, <<"A">>, <<"a",":","b">>, <<"_","_","a">>, <<":","a">>,
           <<"a",":","_","_","b">>, LongestKey, TooLongKey}
KbParents == {<<>>, <<"p">>, <<"_","_","p">>, <<"p",":","_","_","q">>}
KbWildcards == {<<>>, WildcardAnyString, WildcardAnyChar}
KbNamespaces == {<<>>, <<"n">>, <<"N">>, <<"_","_","n">>, <<"n",":","_","_","m">>,
                 <<"n","-","m">>, <<"n","_","_",":","x">>}

\* a setter is called on the builder
KbSet(b) ==
    /\ calls' = [calls EXCEPT !.kbs = <<b>>]
    /\ last' = NoCall
    /\ UNCHANGED <<redis, ns, listeners, pc, trace, named, page>>

KbWithKey(k) == KbSet(WithKey(calls.kbs[1], k))
KbWithParentKey(k) == KbSet(WithParentKey(calls.kbs[1], k))
KbWithWildcard(wc) == KbSet(WithWildcard(calls.kbs[1], wc))
KbWithNamespace(n) == KbSet(WithNamespace(calls.kbs[1], n))
KbReset == KbSet(Reset(calls.kbs[1]))

\* Build or BuildAndReset returns: the key or the error, and the builder afterwards
KbReturns(op, b, res, after) ==
    /\ calls' = [calls EXCEPT !.kbs = <<after>>]
    /\ last' = [NoCall EXCEPT !.op = op, !.err = res.err,
                              !.keys = <<b.key, b.parentKey, b.wildcard, b.namespace>>,
                              !.out = IF res.err = "" THEN <<res.key>> ELSE <<>>]
    /\ UNCHANGED <<redis, ns, listeners, pc, trace, named, page>>

KbBuild == KbReturns("Build", calls.kbs[1], build(calls.kbs[1]), calls.kbs[1])
KbBuildAndReset ==
    LET done(b, r) == KbReturns("BuildAndReset", b, r.res, r.kb)
    IN  done(calls.kbs[1], BuildAndReset(calls.kbs[1]))

InitKeys ==
    /\ redis = EmptyRedis
    /\ ns = <<>>
    /\ listeners = <<>>
    /\ pc = "idle"
    /\ last = NoCall
    /\ trace = <<>>
    /\ named = NoHistory
    /\ page = NoPage
    /\ calls = [kbs |-> <<NewKeyBuilder>>, of |-> <<>>]

NextKeys ==
    \/ \E k \in KbKeys : KbWithKey(k)
    \/ \E k \in KbParents : KbWithParentKey(k)
    \/ \E wc \in KbWildcards : KbWithWildcard(wc)
    \/ \E n \in KbNamespaces : KbWithNamespace(n)
    \/ KbReset
    \/ KbBuild
    \/ KbBuildAndReset

SpecKeys == InitKeys /\ [][NextKeys]_vars

\* a ":"-delimited fragment of s begins with the reserved "__"
ReservedFragmentIn(s) ==
    \E i \in 1..(Len(s) - 1) :
        /\ i = 1 \/ <<s[i - 1]>> = KeyFragmentDelimiter
        /\ SubSeq(s, i, i + 1) = ReservedNamespaceDelimiter
Built == last.op \in {"Build", "BuildAndReset"}

\* C19: Build returns an error whenever the key, the parent key or the
\* namespace has a fragment that begins with "__", wherever the fragment is;
\* so no key is built whose body has a fragment that begins with "__"
C19_ReservedFragmentsRejected ==
    Built =>
        /\ (\E i \in {1, 2, 4} : ReservedFragmentIn(last.keys[i])) => last.err # ""
        /\ last.err = "" => ~ReservedFragmentIn(last.out[1].key)



\* C20: for every key accepted by Build, ParseRedisKey of the built key's
\* RedisKey() succeeds and yields a Key with the same body and the same namespace
RoundTrip(k) ==
    LET same(parsed) ==
            /\ parsed.err = ""
            /\ parsed.key.key = k.key
            /\ parsed.key.namespace = k.namespace
    IN  same(ParseRedisKey(RedisKey(k)))
C20_NamespaceRoundTrip == (Built /\ last.err = "") => RoundTrip(last.out[1])



\* C21: every Key returned by Build or BuildAndReset has a non-empty body that
\* neither starts nor ends with the ":" delimiter
C21_BodyWellFormed ==
    (Built /\ last.err = "") =>
        /\ last.out[1].key # <<>>
        /\ ~HasPrefix(last.out[1].key, KeyFragmentDelimiter)
        /\ ~HasSuffix(last.out[1].key, KeyFragmentDelimiter)



\* C22: every Key returned by Build has a body of at most 1024 characters; a
\* parent key, key and wildcard whose composed body is longer are rejected
C22_BodyWithinMaxLength ==
    (Built /\ last.err = "") => Len(last.out[1].key) <= keyMaxLength



\* C23: for a key built from a non-empty key k with optional parent key p,
\* wildcard w and namespace n, RedisKey() is "__" + lowercase(n) + "__:" (left
\* out when n is empty) followed by p, k and w joined by one ":" each, absent
\* parts left out
Rendered(k, p, w, n) ==
    (IF n = <<>> THEN <<>> ELSE <<"_", "_">> \o ToLower(n) \o <<"_", "_", ":">>)
        \o (IF p = <<>> THEN <<>> ELSE p \o <<":">>)
        \o k
        \o (IF w = <<>> THEN <<>> ELSE <<":">> \o w)
C23_KeyRendering ==
    (Built /\ last.err = "" /\ last.keys[1] # <<>>) =>
        RedisKey(last.out[1])
            = Rendered(last.keys[1], last.keys[2], last.keys[3], last.keys[4])
C23_Witness ==
    /\ Built /\ last.err = ""
    /\ last.keys = <<<<"a", ":", "b">>, <<"p">>, WildcardAnyString, <<"N">>>>
    /\ RedisKey(last.out[1])
           = <<"_", "_", "n", "_", "_", ":", "p", ":", "a", ":", "b", ":", "*">>



(***************************************************************************)
(* SpecNew: rediskey.New (redis_key.go 35-55) applied to lists of key      *)
(* fragments, one call at a time.  last is what New was given (keys) and   *)
(* what it returned.                                                       *)
(***************************************************************************)
MaxFragments == 3   \* the longest list of fragments
NewFragments == {<<>>, <<"a">>, <<"B", "c">>, <<"b", ":", "c">>, <<":">>, <<"@">>,
                 <<"a", "-", "?">>, LongestKey}

RkNew(fragments) ==
    LET returned(res) ==
            [NoCall EXCEPT !.op = "New", !.keys = fragments, !.err = res.err,
                           !.out = IF res.err = "" THEN <<res.key>> ELSE <<>>]
    IN  /\ pc = "idle"
        /\ pc' = "returned"
        /\ last' = returned(New(fragments))
        /\ UNCHANGED <<redis, ns, listeners, trace, named, page, calls>>

NextNew ==
    \/ \E fragments \in SeqsUpTo(NewFragments, MaxFragments) : RkNew(fragments)
    \/ Resume
SpecNew == InitKeys /\ [][NextNew]_vars

\* C24: New returns the non-empty fragments, each lower-cased, joined by ":"
\* in their order; it returns an error instead when a fragment contains ":" or
\* when the joined result is empty, longer than 1024 characters, has a
\* disallowed character, or starts or ends with ":"
RECURSIVE JoinedLower(_)
JoinedLower(fs) ==
    IF fs = <<>> THEN <<>>
    ELSE IF fs[1] = <<>> THEN JoinedLower(Tail(fs))
    ELSE IF JoinedLower(Tail(fs)) = <<>> THEN ToLower(fs[1])
    ELSE ToLower(fs[1]) \o <<":">> \o JoinedLower(Tail(fs))
NewRefuses(fs, j) ==
    \/ \E i \in 1..Len(fs) : \E h \in 1..Len(fs[i]) : fs[i][h] = ":"
    \/ j = <<>>
    \/ Len(j) > 1024
    \/ \E h \in 1..Len(j) : j[h] \notin redisKeyChars
    \/ j[1] = ":" \/ j[Len(j)] = ":"
C24_NewJoinsFragments ==
    last.op = "New" =>
        IF NewRefuses(last.keys, JoinedLower(last.keys))
        THEN last.err # "" /\ last.out = <<>>
        ELSE last.err = "" /\ last.out = <<JoinedLower(last.keys)>>
C24_Witness ==
    /\ last.op = "New"
    /\ last.keys = <<<<>>, <<"B", "c">>, <<"a", "-", "?">>>>
    /\ last.out = <<<<"b", "c", ":", "a", "-", "?">>>>



(***************************************************************************)
(* SpecNsKeys: one KeyBuilderWithNamespace (entity_store.go 651-681) under *)
(* the methods of its method set: the setters of the embedded KeyBuilder,  *)
(* WithNamespace among them, Build, and its own Reset and BuildAndReset.   *)
(* ns[1] is the namespace NewKeyBuilderWithNamespace was given.            *)
(***************************************************************************)
GivenNamespaces == {<<>>, <<"n">>, <<"N">>}

KbNsReset == KbSet(NsReset(calls.kbs[1]))
KbNsBuildAndReset ==
    LET done(b, r) == KbReturns("BuildAndReset", b, r.res, r.kb)
    IN  done(calls.kbs[1], NsBuildAndReset(calls.kbs[1]))

InitNsKeys ==
    /\ redis = EmptyRedis
    /\ ns \in { <<n>> : n \in GivenNamespaces }
    /\ listeners = <<>>
    /\ pc = "idle"
    /\ last = NoCall
    /\ trace = <<>>
    /\ named = NoHistory
    /\ page = NoPage
    /\ calls = [kbs |-> <<NewKeyBuilderWithNamespace(ns[1])>>, of |-> <<>>]

NextNsKeys ==
    \/ \E k \in KbKeys : KbWithKey(k)
    \/ \E k \in KbParents : KbWithParentKey(k)
    \/ \E wc \in KbWildcards : KbWithWildcard(wc)
    \/ \E n \in KbNamespaces : KbWithNamespace(n)
    \/ KbNsReset
    \/ KbBuild
    \/ KbNsBuildAndReset

SpecNsKeys == InitNsKeys /\ [][NextNsKeys]_vars

\* C25: every key built by a KeyBuilderWithNamespace carries the namespace
\* given to NewKeyBuilderWithNamespace, after any sequence of calls to the
\* builder's setters, Reset, Build and BuildAndReset
C25_NamespaceFixed ==
    (Built /\ last.err = "") => last.out[1].namespace = NewKey(<<>>, ns[1]).namespace



(***************************************************************************)
(* SpecEmit: one EventTarget (src/unnamed/part_005) used by two callers at *)
(* the same time.  listeners is the emitter's entry for the target's event *)
(* name: has, whether the map holds the name, and ls, the slice of         *)
(* registrations [token, id], id numbering the listeners in the order they *)
(* were added.  AddListener, RemoveListener and RemoveAllListeners run     *)
(* under the write lock and are one step once they hold it; Emit holds the *)
(* read lock from its first step to its return and invokes one listener    *)
(* per step.  As sync.RWMutex has it, a caller waiting for the write lock  *)
(* keeps new readers out.  calls.of[p] is what caller p holds, calls.regs  *)
(* the number of listeners added so far, trace the invocations made by the *)
(* calls that have not been resumed from.  A caller keeps the entry as it  *)
(* was when its call took the lock (before) and, for a call under the      *)
(* write lock, as the call left it (after).                                *)
(***************************************************************************)
MaxRegs == 3   \* the listeners added in a run

NoEmLocal == [at |-> "idle", op |-> "", token |-> "", args |-> "", snap |-> <<>>,
              i |-> 0, ok |-> FALSE, before |-> NewEmitter, after |-> NewEmitter]

Reading(p) == calls.of[p].at = "loop"
Waiting(p) == calls.of[p].at = "lock"

\* caller p goes on: its locals, the registrations, the count, the invocations
EmStep(p, loc, e, regs, t) ==
    /\ calls' = [calls EXCEPT !.of[p] = loc, !.regs = regs]
    /\ listeners' = e
    /\ trace' = t
    /\ UNCHANGED <<redis, ns, pc, last, named, page>>

\* AddListener, RemoveListener(token) or RemoveAllListeners is called: e.mu.Lock()
EmLock(p, op, token) ==
    /\ calls.of[p].at = "idle"
    /\ op = "AddListener" => calls.regs < MaxRegs /\ token = ""
    /\ op = "RemoveAllListeners" => token = ""
    /\ op = "RemoveListener" => token # ""
    /\ EmStep(p, [NoEmLocal EXCEPT !.at = "lock", !.op = op, !.token = token],
              listeners, calls.regs, trace)

\* AddListener under the lock: generateToken() gives any token
EmAddListener(p, token) ==
    LET c == calls.of[p]
        wrote(e) == EmStep(p, [c EXCEPT !.at = "done", !.token = token, !.ok = TRUE,
                                        !.before = listeners, !.after = e],
                           e, calls.regs + 1, trace)
    IN  /\ c.at = "lock" /\ c.op = "AddListener"
        /\ \A q \in Callers : ~Reading(q)
        /\ wrote([has |-> TRUE,
                   ls |-> Append(listeners.ls, [token |-> token, id |-> calls.regs + 1])])

\* RemoveListener that does not wait for the Emits in flight
EmRemoveListenerUnlocked(p) ==
    LET c == calls.of[p]
        wrote(ok, e) == EmStep(p, [c EXCEPT !.at = "done", !.ok = ok,
                                            !.before = listeners, !.after = e],
                               e, calls.regs, trace)
        at(i) == wrote(i > 0, IF i > 0 THEN [listeners EXCEPT !.ls = DeleteAt(@, i)]
                              ELSE listeners)
        hits == { i \in 1..Len(listeners.ls) : listeners.ls[i].token = c.token }
    IN  /\ c.at = "lock" /\ c.op = "RemoveListener"
        /\ at(IF ~listeners.has \/ hits = {} THEN 0
              ELSE CHOOSE i \in hits : \A j \in hits : i <= j)
\* RemoveListener under the lock: the first registration with the token goes
EmRemoveListener(p) ==
    LET c == calls.of[p]
        wrote(ok, e) == EmStep(p, [c EXCEPT !.at = "done", !.ok = ok,
                                            !.before = listeners, !.after = e],
                               e, calls.regs, trace)
        at(i) == wrote(i > 0, IF i > 0 THEN [listeners EXCEPT !.ls = DeleteAt(@, i)]
                              ELSE listeners)
        hits == { i \in 1..Len(listeners.ls) : listeners.ls[i].token = c.token }
    IN  /\ c.at = "lock" /\ c.op = "RemoveListener"
        /\ \A q \in Callers : ~Reading(q)
        /\ at(IF ~listeners.has \/ hits = {} THEN 0
              ELSE CHOOSE i \in hits : \A j \in hits : i <= j)

\* RemoveAllListeners under the lock: the name leaves the map if it is there
EmRemoveAllListeners(p) ==
    LET c == calls.of[p]
        wrote(e) == EmStep(p, [c EXCEPT !.at = "done", !.ok = listeners.has,
                                        !.before = listeners, !.after = e],
                           e, calls.regs, trace)
    IN  /\ c.at = "lock" /\ c.op = "RemoveAllListeners"
        /\ \A q \in Callers : ~Reading(q)
        /\ wrote(IF listeners.has THEN NewEmitter ELSE listeners)

\* Emit that leaves the first listener out of its range
EmEmitTail(p) ==
    LET c == [NoEmLocal EXCEPT !.op = "Emit", !.args = CtxOf(p), !.before = listeners]
    IN  /\ calls.of[p].at = "idle"
        /\ \A q \in Callers : ~Waiting(q)
        /\ EmStep(p, IF ~listeners.has \/ Len(listeners.ls) = 0
                     THEN [c EXCEPT !.at = "done"]
                     ELSE [c EXCEPT !.at = "loop", !.snap = Tail(listeners.ls), !.i = 1],
                  listeners, calls.regs, trace)
\* Emit(args) is called and gets the read lock: it returns false at once
\* when the name is not in the map or its slice is empty
EmEmit(p) ==
    LET c == [NoEmLocal EXCEPT !.op = "Emit", !.args = CtxOf(p), !.before = listeners]
    IN  /\ calls.of[p].at = "idle"
        /\ \A q \in Callers : ~Waiting(q)
        /\ EmStep(p, IF ~listeners.has \/ Len(listeners.ls) = 0
                     THEN [c EXCEPT !.at = "done"]
                     ELSE [c EXCEPT !.at = "loop", !.snap = listeners.ls, !.i = 1],
                  listeners, calls.regs, trace)

\* a range that passes the handler the arguments of another call
EmInvokeOther(p) ==
    LET c == calls.of[p]
    IN  /\ c.at = "loop" /\ c.i <= Len(c.snap)
        /\ EmStep(p, [c EXCEPT !.i = @ + 1], listeners, calls.regs,
                  Append(trace, [by |-> p, id |-> c.snap[c.i].id, args |-> ""]))
\* listener.handler(args...) for the next listener of the range
EmInvoke(p) ==
    LET c == calls.of[p]
    IN  /\ c.at = "loop" /\ c.i <= Len(c.snap)
        /\ EmStep(p, [c EXCEPT !.i = @ + 1], listeners, calls.regs,
                  Append(trace, [by |-> p, id |-> c.snap[c.i].id, args |-> c.args]))

\* the range is over: Emit returns true and gives the read lock back
EmReturn(p) ==
    LET c == calls.of[p]
    IN  /\ c.at = "loop" /\ c.i > Len(c.snap)
        /\ EmStep(p, [c EXCEPT !.at = "done", !.ok = TRUE], listeners, calls.regs, trace)

\* the caller goes on to its next call
EmResume(p) ==
    /\ calls.of[p].at = "done"
    /\ EmStep(p, NoEmLocal, listeners, calls.regs,
              SelectSeq(trace, LAMBDA t : t.by # p))

InitEmit ==
    /\ redis = EmptyRedis
    /\ ns = <<>>
    /\ listeners = NewEmitter
    /\ pc = "idle"
    /\ last = NoCall
    /\ trace = <<>>
    /\ named = NoHistory
    /\ page = NoPage
    /\ calls = [kbs |-> <<>>, of |-> [p \in Callers |-> NoEmLocal], regs |-> 0]

NextEmit ==
    \/ \E p \in Callers : EmLock(p, "AddListener", "")
    \/ \E p \in Callers, token \in Tokens : EmLock(p, "RemoveListener", token)
    \/ \E p \in Callers : EmLock(p, "RemoveAllListeners", "")
    \/ \E p \in Callers, token \in Tokens : EmAddListener(p, token)
    \/ \E p \in Callers : EmRemoveListener(p)
    \/ \E p \in Callers : EmRemoveAllListeners(p)
    \/ \E p \in Callers : EmEmit(p)
    \/ \E p \in Callers : EmInvoke(p)
    \/ \E p \in Callers : EmReturn(p)
    \/ \E p \in Callers : EmResume(p)

SpecEmit == InitEmit /\ [][NextEmit]_vars



\* the invocations caller p's call has made, the listeners of a slice
InvokedBy(p) == SelectSeq(trace, LAMBDA t : t.by = p)
IdsOf(ls) == [i \in 1..Len(ls) |-> ls[i].id]

\* C26: Emit invokes every listener registered at the time of the call exactly
\* once, in registration order, with the emitted arguments, all before it
\* returns; it returns true exactly when a listener was registered and
\* invokes nothing when it returns false
C26_EmitInvokesAll ==
    \A p \in Callers :
        LET c == calls.of[p]
        IN  (c.op = "Emit" /\ c.at = "done") =>
                /\ c.ok <=> Len(c.before.ls) > 0
                /\ IdsOf(c.before.ls) = [i \in 1..Len(InvokedBy(p)) |-> InvokedBy(p)[i].id]
                /\ \A i \in 1..(Len(c.before.ls) - 1) :
                       c.before.ls[i].id < c.before.ls[i + 1].id
                /\ \A i \in 1..Len(InvokedBy(p)) : InvokedBy(p)[i].args = CtxOf(p)
                /\ ~c.ok => InvokedBy(p) = <<>>
C26_Witness ==
    \E p \in Callers :
        /\ calls.of[p].op = "Emit" /\ calls.of[p].at = "done" /\ calls.of[p].ok
        /\ Len(InvokedBy(p)) = 3
        /\ \E q \in Callers : calls.of[q].op = "Emit" /\ calls.of[q].at = "loop"



\* C27: RemoveListener(token) returns true and removes exactly one
\* registration when the token is registered, the other listeners staying in
\* their order; it returns false and changes nothing when the token is not
\* registered, a second call with the same token included, so that after a
\* call that returned true the token is registered no more; and an Emit in
\* flight ranges over none but registered listeners
TokensIn(ls) == { ls[i].token : i \in 1..Len(ls) }
C27_RemoveListenerOnce ==
    /\ \A p \in Callers :
           LET c == calls.of[p]
           IN  (c.op = "RemoveListener" /\ c.at = "done") =>
                   /\ c.token \in TokensIn(c.before.ls) =>
                          /\ c.ok
                          /\ \E i \in 1..Len(c.before.ls) :
                                 /\ c.before.ls[i].token = c.token
                                 /\ c.after.ls = DeleteAt(c.before.ls, i)
                   /\ c.token \notin TokensIn(c.before.ls) =>
                          ~c.ok /\ c.after = c.before
                   /\ c.ok => c.token \notin TokensIn(c.after.ls)
    /\ \A q \in Callers : Reading(q) => calls.of[q].snap = listeners.ls



\* C28: RemoveAllListeners returns true exactly when a listener was
\* registered at the time of the call, after any AddListener, RemoveListener
\* and RemoveAllListeners calls; it leaves no listener, so that Emit returns
\* false until one is added
C28_RemoveAllListeners ==
    \A p \in Callers :
        LET c == calls.of[p]
        IN  (c.op = "RemoveAllListeners" /\ c.at = "done") =>
                /\ c.ok <=> Len(c.before.ls) > 0
                /\ c.after.ls = <<>>



\* C29: with L listeners registered and the callers emitting at the same
\* time, no listener added or removed meanwhile, each listener is invoked
\* once per Emit (L times the number of Emits in all) and every Emit returns
\* true, however the calls interleave
Emitted(p) == calls.of[p].op = "Emit" /\ calls.of[p].at = "done"
C29_ConcurrentEmits ==
    (/\ \A p \in Callers : Emitted(p)
     /\ \A p \in Callers : calls.of[p].before = listeners
     /\ Len(listeners.ls) > 0) =>
        /\ \A p \in Callers : calls.of[p].ok
        /\ Len(trace) = Len(listeners.ls) * Cardinality(Callers)
        /\ \A i \in 1..Len(listeners.ls) :
               Cardinality({ h \in 1..Len(trace) : trace[h].id = listeners.ls[i].id })
                   = Cardinality(Callers)
C29_Witness ==
    /\ \A p \in Callers : Emitted(p) /\ calls.of[p].before = listeners
    /\ Len(listeners.ls) = 2
    /\ Len(trace) = 4
    /\ trace[1].by # trace[2].by /\ trace[2].by = trace[3].by



\* C30: when RemoveListener(token) runs at the same time as an Emit, the
\* listener it removed is never invoked once it has returned true, by the
\* Emit in flight or by a later one, and every other listener registered when
\* the Emit began is invoked exactly once by that Emit
Registered == { listeners.ls[i].id : i \in 1..Len(listeners.ls) }
Removing(q) == calls.of[q].op = "RemoveListener" /\ calls.of[q].at \in {"lock", "done"}
InvokesRegistered ==
    Len(trace') > Len(trace) => trace'[Len(trace')].id \in Registered
EmitKeepsTheOthers ==
    \A p \in Callers : \A q \in Callers \ {p} :
        (Emitted(p) /\ Removing(q)) =>
            \A i \in 1..Len(calls.of[p].before.ls) :
                Cardinality({ h \in 1..Len(InvokedBy(p)) :
                                  InvokedBy(p)[h].id = calls.of[p].before.ls[i].id }) = 1
C30_RemoveDuringEmit == [][InvokesRegistered]_vars /\ []EmitKeepsTheOthers
C30_Witness ==
    \E p \in Callers : \E q \in Callers \ {p} :
        /\ Reading(p) /\ calls.of[p].i = 2 /\ Len(calls.of[p].snap) = 2
        /\ Waiting(q) /\ calls.of[q].op = "RemoveListener"
        /\ calls.of[q].token = calls.of[p].snap[2].token
        /\ calls.of[q].token # calls.of[p].snap[1].token



\* C31: GetWithPagination passes the external scan a limit between 1 and
\* 1000: 1000 for a requested limit <= 0 or >= 1000, the requested limit itself
\* from 1 to 999
Scans == { i \in 1..Len(trace) : trace[i].kind = "io" /\ trace[i].name = "SCAN" }
C31_ScanLimitClamped ==
    last.op = "GetWithPagination" =>
        \A i \in Scans :
            /\ trace[i].to[2] \in 1..1000
            /\ trace[i].to[2] = IF last.limit <= 0 \/ last.limit >= 1000 THEN 1000
                                ELSE last.limit
C31_Witness ==
    /\ last.op = "GetWithPagination"
    /\ last.limit = 1001
    /\ \E i \in Scans : trace[i].to = <<0, 1000>>



\* C32: flush on a store made with an empty namespace panics, returning no
\* error, before any call to the external store: nothing is deleted and no
\* Flushed event is emitted
C32_FlushNeedsNamespace ==
    (pc = "returned" /\ last.op = "flush" /\ ns[last.store] = <<>>) =>
        /\ last.panic
        /\ last.err = ""
        /\ trace = <<>>
        /\ redis = last.before
C32_Witness ==
    /\ pc = "returned" /\ last.op = "flush" /\ ns[last.store] = <<>>
    /\ last.panic
    /\ Cardinality(DOMAIN redis) = 2



\* C33: with nothing written meanwhile, GetAll(parentKey) returns exactly one
\* decoded entity for each stored key of the store's namespace whose body is
\* parentKey:entityKind:<rest> (entityKind:<rest> for an empty parent key), and
\* no entity of another parent key, kind or namespace
ScopePrefix(s, parentKey) ==
    (IF ns[s] = <<>> THEN <<>> ELSE <<"_", "_">> \o ToLower(ns[s]) \o <<"_", "_", ":">>)
        \o (IF parentKey = <<>> THEN <<>> ELSE parentKey \o <<":">>)
        \o EntityKindTest \o <<":">>
KeysUnder(s, parentKey, r) ==
    { k \in DOMAIN r : Len(k) > Len(ScopePrefix(s, parentKey))
                          /\ HasPrefix(k, ScopePrefix(s, parentKey)) }
C33_GetAllScope ==
    Succeeded("GetAll") =>
        /\ Len(last.out) = Cardinality(KeysUnder(last.store, last.parent, redis))
        /\ { last.out[i] : i \in 1..Len(last.out) }
               = { UnmarshalProto(redis[k]).e : k \in KeysUnder(last.store, last.parent, redis) }



\* C34: RemoveAll emits exactly one Removed event when it deleted at least one
\* key, carrying exactly the entity keys (the values of GetKey, without any
\* namespace prefix) of the entities it deleted; when no key matched it
\* deletes nothing and emits no event
Gone == DOMAIN last.before \ DOMAIN redis
C34_RemoveAllEvent ==
    Succeeded("RemoveAll") =>
        IF Gone = {} THEN redis = last.before /\ Emits(trace) = {}
        ELSE /\ Cardinality(Emits(trace)) = 1
             /\ \A i \in Emits(trace) :
                   /\ trace[i].name = "EntitiesRemoved"
                   /\ Len(trace[i].keys) = Cardinality(Gone)
                   /\ { trace[i].keys[j] : j \in 1..Len(trace[i].keys) }
                        = { GetKey(UnmarshalProto(last.before[k]).e) : k \in Gone }



\* the builder that built last, as it was when BuildAndReset was called
BuilderBefore ==
    [key |-> last.keys[1], parentKey |-> last.keys[2], wildcard |-> last.keys[3],
     namespace |-> last.keys[4]]
\* the key that a new builder of the namespace builds for one entity key
FreshKey(namespace, entityKey) == build(WithKey(NewKeyBuilderWithNamespace(namespace), entityKey))
LoopKeyLists == {<<GetKey(Made(IdA, TenantT)), GetKey(Made(IdB, TenantT))>>,
                 <<GetKey(Made(IdB, TenantT)), <<"_","_","a">>, GetKey(Made(IdA, TenantT))>>}
LoopBatches == {<<Made(IdA, TenantT), Made(IdB, TenantU)>>,
                <<Made(IdB, TenantT), ReservedEntity, Made(IdA, TenantT)>>}
\* the keys of a loop are, element by element, the keys of new builders, and
\* the loop ends at the first element whose key does not build
LoopKeysFresh(namespace, got, entityKeys) ==
    /\ \A i \in 1..Len(got.keys) : got.keys[i] = FreshKey(namespace, entityKeys[i]).key
    /\ IF \E i \in 1..Len(entityKeys) : FreshKey(namespace, entityKeys[i]).err # ""
       THEN got.err # "" /\ FreshKey(namespace, entityKeys[Len(got.keys) + 1]).err # ""
       ELSE got.err = "" /\ Len(got.keys) = Len(entityKeys)

\* C35: BuildAndReset leaves the builder with empty key, parent key and
\* wildcard whether the build succeeded or returned an error, and a
\* KeyBuilderWithNamespace with its namespace unchanged; so the key built next
\* depends only on the setters called after it, and the loops of AddBatch and
\* RemoveByKeys build for element i the key of element i and the namespace
C35_BuildAndResetClears ==
    last.op = "BuildAndReset" =>
        /\ calls.kbs[1] = NewKeyBuilderWithNamespace(BuilderBefore.namespace)
        /\ BuildAndReset(BuilderBefore).kb = NewKeyBuilder
        /\ (last.err = "") = (build(BuilderBefore).err = "")
        /\ \A ks \in LoopKeyLists :
              LoopKeysFresh(BuilderBefore.namespace,
                            BuildKeysLoop(calls.kbs[1], ks, 1, [err |-> "", keys |-> <<>>]), ks)
        /\ \A es \in LoopBatches :
              LoopKeysFresh(BuilderBefore.namespace,
                            AddBatchLoop(calls.kbs[1], es, 1,
                                         [err |-> "", keys |-> <<>>, entityKeys |-> <<>>,
                                          data |-> <<>>]),
                            [i \in 1..Len(es) |-> GetKey(es[i])])
C35_Witness ==
    /\ last.op = "BuildAndReset"
    /\ last.err # ""
    /\ \A i \in 1..4 : last.keys[i] # <<>>
    /\ calls.kbs[1] = NewKeyBuilderWithNamespace(last.keys[4])



(***************************************************************************)
(* SpecScan: the datastore client alone over contents written with Put;    *)
(* ScanKeys and GetKeys are asked for the keys of a pattern                *)
(***************************************************************************)
\* SCAN's COUNT is a hint: one call may go over fewer table slots (served)
RedisScanServed(r, cursor, pattern, count, served, turn, again) ==
    RedisScan(r, cursor, pattern, IF served < count THEN served ELSE count, turn, again)

\* GetKeysWithCursor against a server that serves at most served slots a call
GetKeysWithCursorServed(r, ctx, cursor, limit, keyMatch, ok, served, turn, again) ==
    LET count == IF limit <= 0 \/ limit > scanMaxLimit THEN scanMaxLimit ELSE limit
        call(pattern, o) ==
            <<[IoCall("SCAN", ctx, <<pattern>>, o) EXCEPT !.to = <<cursor, count>>]>>
        parsed(pattern, reply, p) ==
            IF p.err # "" THEN [Res(r) EXCEPT !.err = p.err, !.io = call(pattern, TRUE)]
            ELSE [Res(r) EXCEPT !.keys = p.keys, !.cursor = reply.cursor,
                                !.io = call(pattern, TRUE)]
        scanned(pattern, reply) == parsed(pattern, reply, ParseAll(reply.keys))
        sent(pattern) ==
            IF ~ok
            THEN [Res(r) EXCEPT !.err = "datastore: failed scanning redis for keys",
                                !.io = call(pattern, FALSE)]
            ELSE scanned(pattern, RedisScanServed(r, cursor, pattern, count, served, turn, again))
    IN  sent(RedisKey(keyMatch))

\* the keys of allKeys whose RedisKey was not seen earlier in the list
Unseen(allKeys) ==
    SelectSeq([i \in 1..Len(allKeys) |->
                  IF \E j \in 1..(i - 1) : RedisKey(allKeys[j]) = RedisKey(allKeys[i])
                  THEN NoKey ELSE allKeys[i]],
              LAMBDA k : k # NoKey)

\* the loop of ScanKeys: call n starts at cursor with the keys of the calls before
RECURSIVE ScanKeysLoop(_, _, _, _, _, _, _, _, _, _)
ScanKeysLoop(r, ctx, cursor, keyMatch, fail, served, turn, again, n, acc) ==
    LET got(g) ==
            IF g.err # "" THEN [Res(r) EXCEPT !.err = g.err, !.io = acc.io \o g.io]
            ELSE IF g.cursor = 0
            THEN [Res(r) EXCEPT !.keys = acc.keys \o g.keys, !.io = acc.io \o g.io]
            ELSE ScanKeysLoop(r, ctx, g.cursor, keyMatch, fail, served, turn, again, n + 1,
                              [keys |-> acc.keys \o g.keys, io |-> acc.io \o g.io])
    IN  got(GetKeysWithCursorServed(r, ctx, cursor, scanMaxLimit, keyMatch, fail # n,
                                    served, turn, again))

\* a ScanKeys that returns every key of every call
ScanKeysAll(r, ctx, keyMatch, fail, served, turn, again) ==
    ScanKeysLoop(r, ctx, 0, keyMatch, fail, served, turn, again, 1,
                 [keys |-> <<>>, io |-> <<>>])
ScanKeys(r, ctx, keyMatch, fail, served, turn, again) ==
    LET all(got) == IF got.err # "" THEN got ELSE [got EXCEPT !.keys = Unseen(got.keys)]
    IN  all(ScanKeysLoop(r, ctx, 0, keyMatch, fail, served, turn, again, 1,
                         [keys |-> <<>>, io |-> <<>>]))

MaxServed == 2   \* the most table slots a SCAN serves when it serves fewer than COUNT
ScanNamespaces == {<<>>, <<"n">>}
ScanPutKeys ==
    { NewKey(k, n) : k \in {IdA, IdB, <<"a",":","b">>}, n \in ScanNamespaces }
ScanMatchKeys ==
    { NewKey(k, n) : k \in {<<"*">>, <<"a","*">>, <<"?">>}, n \in ScanNamespaces }
ScanData == <<[f |-> 1, s |-> IdA, n |-> 0]>>

\* a call of the datastore client returns
DsReturns(op, keyMatch, o) ==
    /\ pc = "idle"
    /\ pc' = "returned"
    /\ redis' = o.redis
    /\ last' = [NoCall EXCEPT !.op = op, !.err = o.err, !.keys = o.keys,
                              !.parent = RedisKey(keyMatch), !.before = redis]
    /\ trace' = o.io
    /\ UNCHANGED <<ns, listeners, named, page, calls>>

DsPut(key) == DsReturns("Put", key, Put(redis, "ctx1", key, ScanData, TRUE))
DsScanKeys(keyMatch, fail, served, turn, again) ==
    DsReturns("ScanKeys", keyMatch, ScanKeys(redis, "ctx1", keyMatch, fail, served, turn, again))
DsGetKeys(keyMatch, fail, turn) ==
    DsReturns("GetKeys", keyMatch, GetKeys(redis, "ctx1", keyMatch, fail # 1, turn))

InitScan ==
    /\ redis = EmptyRedis
    /\ ns = <<>>
    /\ listeners = <<>>
    /\ pc = "idle"
    /\ last = NoCall
    /\ trace = <<>>
    /\ named = NoHistory
    /\ page = NoPage
    /\ calls = NoCalls

NextScan ==
    \/ \E key \in ScanPutKeys : DsPut(key)
    \/ \E keyMatch \in ScanMatchKeys, fail \in 0..2, served \in (1..MaxServed) \cup {scanMaxLimit},
          turn \in BOOLEAN, again \in 0..MaxAgain :
          DsScanKeys(keyMatch, fail, served, turn, again)
    \/ \E keyMatch \in ScanMatchKeys, fail \in 0..1, turn \in BOOLEAN :
          DsGetKeys(keyMatch, fail, turn)
    \/ Resume

SpecScan == InitScan /\ [][NextScan]_vars

\* what the other enumeration answers for the pattern of the call
KeysSaid(keyMatchPattern, turn) == ParseAll(RedisKeys(redis, keyMatchPattern, turn))
\* C36: on a store that is not mutated during the calls, ScanKeys (the cursor
\* scan driven to cursor 0, then de-duplicated) and GetKeys (the blocking
\* enumeration) return the same set of keys for a pattern, and the ScanKeys
\* result contains no key twice
C36_ScanKeysAsGetKeys ==
    (pc = "returned" /\ last.op = "ScanKeys" /\ last.err = "") =>
        /\ \A turn \in BOOLEAN :
              /\ KeysSaid(last.parent, turn).err = ""
              /\ Range(last.keys) = Range(KeysSaid(last.parent, turn).keys)
        /\ \A i, j \in 1..Len(last.keys) : last.keys[i] = last.keys[j] => i = j
C36_Witness ==
    /\ pc = "returned" /\ last.op = "ScanKeys" /\ last.err = ""
    /\ Len(last.keys) >= 2
    /\ Len(trace) >= 3
    /\ \E i \in 1..Len(trace) : trace[i].to[1] > MaxAgain



(***************************************************************************)
(* SpecReenter: one EventTarget whose listener bodies may call the target  *)
(* again.  calls.of[p] is the stack of the calls caller p is in, the       *)
(* innermost last: a frame waits for the write lock (wlock) or the read    *)
(* lock (rlock), or ranges over the listeners under the read lock (loop).  *)
(* A registration is [token, id, body]: body says what the handler does    *)
(* when invoked, "plain" (nothing on the target), or a call of AddListener,*)
(* RemoveListener (of its own token) or Emit on the same target; a handler *)
(* that emits does so only when it is not itself run by a nested Emit, so  *)
(* that every body terminates.  Tokens are taken distinct.  sync.RWMutex:  *)
(* Lock waits for every read lock held, the caller's own included; RLock   *)
(* waits while a Lock is pending.                                          *)
(***************************************************************************)
Bodies == {"plain", "AddListener", "RemoveListener", "Emit"}

NoFrame == [at |-> "", op |-> "", token |-> 0, body |-> "", snap |-> <<>>, i |-> 0]
Holds(q) == \E k \in 1..Len(calls.of[q]) : calls.of[q][k].at = "loop"
Pending(q) == \E k \in 1..Len(calls.of[q]) : calls.of[q][k].at = "wlock"
Pop(stack) == SubSeq(stack, 1, Len(stack) - 1)

ReStep(p, stack, e, regs) ==
    /\ calls' = [calls EXCEPT !.of[p] = stack, !.regs = regs]
    /\ listeners' = e
    /\ UNCHANGED <<redis, ns, pc, last, trace, named, page>>

\* a caller that is in no call calls the target
ReCall(p, op, token, body) ==
    /\ calls.of[p] = <<>>
    /\ op = "AddListener" => calls.regs < MaxRegs /\ token = 0
    /\ op = "RemoveListener" => token # 0 /\ body = ""
    /\ op \in {"RemoveAllListeners", "Emit"} => token = 0 /\ body = ""
    /\ ReStep(p, <<[NoFrame EXCEPT !.at = IF op = "Emit" THEN "rlock" ELSE "wlock",
                                   !.op = op, !.token = token, !.body = body]>>,
              listeners, calls.regs)

\* e.mu.Lock() returns, the call does its work and returns
ReLock(p) ==
    LET stack == calls.of[p]
        f == stack[Len(stack)]
        hits == { i \in 1..Len(listeners.ls) : listeners.ls[i].token = f.token }
    IN  /\ stack # <<>> /\ f.at = "wlock"
        /\ \A q \in Callers : ~Holds(q)
        /\ CASE f.op = "AddListener" ->
                  ReStep(p, Pop(stack),
                         [has |-> TRUE,
                          ls |-> Append(listeners.ls,
                                        [token |-> calls.regs + 1, id |-> calls.regs + 1,
                                         body |-> f.body])],
                         calls.regs + 1)
             [] f.op = "RemoveListener" ->
                  ReStep(p, Pop(stack),
                         IF ~listeners.has \/ hits = {} THEN listeners
                         ELSE [listeners EXCEPT
                                  !.ls = DeleteAt(@, CHOOSE i \in hits : \A j \in hits : i <= j)],
                         calls.regs)
             [] f.op = "RemoveAllListeners" ->
                  ReStep(p, Pop(stack), IF listeners.has THEN NewEmitter ELSE listeners,
                         calls.regs)

\* e.mu.RLock() returns: Emit returns false at once when there is nothing to call
ReRLock(p) ==
    LET stack == calls.of[p]
        f == stack[Len(stack)]
    IN  /\ stack # <<>> /\ f.at = "rlock"
        /\ \A q \in Callers : ~Pending(q)
        /\ ReStep(p, IF ~listeners.has \/ Len(listeners.ls) = 0 THEN Pop(stack)
                     ELSE Append(Pop(stack), [f EXCEPT !.at = "loop", !.snap = listeners.ls,
                                                       !.i = 1]),
                  listeners, calls.regs)

\* listener.handler(args...): the body of the next listener starts, and calls
\* the target when that is what it does
ReInvoke(p) ==
    LET stack == calls.of[p]
        f == stack[Len(stack)]
        on == Append(Pop(stack), [f EXCEPT !.i = @ + 1])
        nested(op, token) ==
            Append(on, [NoFrame EXCEPT !.at = IF op = "Emit" THEN "rlock" ELSE "wlock",
                                       !.op = op, !.token = token, !.body = "plain"])
        does(body, token) ==
            IF body = "AddListener" /\ calls.regs < MaxRegs THEN nested("AddListener", 0)
            ELSE IF body = "RemoveListener" THEN nested("RemoveListener", token)
            ELSE IF body = "Emit" /\ Len(stack) = 1 THEN nested("Emit", 0)
            ELSE on
    IN  /\ stack # <<>> /\ f.at = "loop" /\ f.i <= Len(f.snap)
        /\ ReStep(p, does(f.snap[f.i].body, f.snap[f.i].token), listeners, calls.regs)

\* the range is over: Emit returns true and gives the read lock back
ReReturn(p) ==
    LET stack == calls.of[p]
        f == stack[Len(stack)]
    IN  /\ stack # <<>> /\ f.at = "loop" /\ f.i > Len(f.snap)
        /\ ReStep(p, Pop(stack), listeners, calls.regs)

InitReenter ==
    /\ redis = EmptyRedis
    /\ ns = <<>>
    /\ listeners = NewEmitter
    /\ pc = "idle"
    /\ last = NoCall
    /\ trace = <<>>
    /\ named = NoHistory
    /\ page = NoPage
    /\ calls = [kbs |-> <<>>, of |-> [p \in Callers |-> <<>>], regs |-> 0]

NextReenter ==
    \/ \E p \in Callers, body \in Bodies : ReCall(p, "AddListener", 0, body)
    \/ \E p \in Callers, token \in 1..MaxRegs : ReCall(p, "RemoveListener", token, "")
    \/ \E p \in Callers : ReCall(p, "RemoveAllListeners", 0, "")
    \/ \E p \in Callers : ReCall(p, "Emit", 0, "")
    \/ \E p \in Callers : ReLock(p)
    \/ \E p \in Callers : ReRLock(p)
    \/ \E p \in Callers : ReInvoke(p)
    \/ \E p \in Callers : ReReturn(p)

SpecReenter == InitReenter /\ [][NextReenter]_vars
\* the scheduler lets every caller that can go on go on; a reader that waits
\* gets the lock when the writer it waits for unlocks
FairReenter ==
    /\ SpecReenter
    /\ \A p \in Callers : WF_vars(ReLock(p)) /\ SF_vars(ReRLock(p))
                          /\ WF_vars(ReInvoke(p)) /\ WF_vars(ReReturn(p))

\* C37: every AddListener, RemoveListener, RemoveAllListeners and Emit call
\* on an event target eventually returns under every interleaving of callers,
\* also when a listener body calls AddListener, RemoveListener or Emit on the
\* same target while it is being invoked
C37_EveryCallReturns ==
    \A p \in Callers : (calls.of[p] # <<>>) ~> (calls.of[p] = <<>>)



(***************************************************************************)
(* SpecRace: two callers in Add or Remove of one key on one store at the   *)
(* same time (entity_store.go 194-210, 248-263).  A call builds its key,   *)
(* sends its one Redis command and then emits; the commands and the emits  *)
(* of the callers interleave, each being one step.  One listener is on     *)
(* EntitiesAdded and on EntitiesRemoved; trace holds the commands applied  *)
(* and the events the listener was handed, in the order they happened.     *)
(***************************************************************************)
MaxCalls == 3   \* the calls made in a run

RaceEntity == Made(IdA, TenantT)
NoRaceLocal == [at |-> "idle", op |-> "", key |-> NoKey, data |-> <<>>, err |-> ""]

RaceStep(p, loc, n, r, t) ==
    /\ calls' = [calls EXCEPT !.of[p] = loc, !.regs = n]
    /\ redis' = r
    /\ trace' = t
    /\ UNCHANGED <<ns, listeners, pc, last, named, page>>

\* Add(ctx, entity, 0) or Remove(ctx, entityKey) is called: the key is built
\* with a builder of the call's own, and Add marshals the entity
RaceCall(p, op) ==
    LET built(b, m) ==
            RaceStep(p, IF b.err # "" \/ m.err # ""
                        THEN [NoRaceLocal EXCEPT !.at = "done", !.op = op, !.err = "failed"]
                        ELSE [NoRaceLocal EXCEPT !.at = "write", !.op = op, !.key = b.key,
                                                 !.data = m.data],
                     calls.regs + 1, redis, trace)
    IN  /\ calls.of[p].at = "idle"
        /\ calls.regs < MaxCalls
        /\ op \in {"Add", "Remove"}
        /\ built(KeyOf(StoreKeyBuilder(StoreOf(1)), GetKey(RaceEntity)).res,
                 IF op = "Add" THEN ProtoMarshal(RaceEntity) ELSE [err |-> "", data |-> <<>>])

\* es.dsClient.Put or es.dsClient.Delete
RaceWrite(p, ok) ==
    LET c == calls.of[p]
        written(w) ==
            RaceStep(p, IF w.err # "" THEN [c EXCEPT !.at = "done", !.err = w.err]
                        ELSE [c EXCEPT !.at = "emit"],
                     calls.regs, w.redis, trace \o w.io)
    IN  /\ c.at = "write"
        /\ written(IF c.op = "Add" THEN Put(redis, CtxOf(p), c.key, c.data, ok)
                   ELSE Delete(redis, CtxOf(p), <<c.key>>, ok))

\* es.onAdded.emit or es.onRemoved.emit
RaceEmit(p) ==
    LET c == calls.of[p]
    IN  /\ c.at = "emit"
        /\ RaceStep(p, [c EXCEPT !.at = "done"], calls.regs, redis,
                    Append(trace, emit(StoreOf(1), IF c.op = "Add" THEN "EntitiesAdded"
                                                   ELSE "EntitiesRemoved",
                                       CtxOf(p), <<GetKey(RaceEntity)>>)))

\* the call has returned and the caller goes on to its next call
RaceResume(p) ==
    /\ calls.of[p].at = "done"
    /\ RaceStep(p, NoRaceLocal, calls.regs, redis, trace)

InitRace ==
    /\ redis = EmptyRedis
    /\ ns = [s \in {1} |-> <<"n">>]
    /\ listeners = [s \in {1} |->
                       [StoreNew(s, EntityKindTest, <<"n">>).es.on EXCEPT
                            !["EntitiesAdded"] = AddListener(@, "tok1"),
                            !["EntitiesRemoved"] = AddListener(@, "tok1")]]
    /\ pc = "idle"
    /\ last = NoCall
    /\ trace = <<>>
    /\ named = NoHistory
    /\ page = NoPage
    /\ calls = [kbs |-> <<>>, of |-> [p \in Callers |-> NoRaceLocal], regs |-> 0]

NextRace ==
    \/ \E p \in Callers, op \in {"Add", "Remove"} : RaceCall(p, op)
    \/ \E p \in Callers, ok \in BOOLEAN : RaceWrite(p, ok)
    \/ \E p \in Callers : RaceEmit(p)
    \/ \E p \in Callers : RaceResume(p)

SpecRace == InitRace /\ [][NextRace]_vars

\* the event names of the writes and deletes applied, and of the events
\* observed, in the order of the trace
Applied ==
    LET done == SelectSeq(trace, LAMBDA t : t.kind = "io" /\ t.ok)
    IN  [i \in 1..Len(done) |->
            IF done[i].name = "SET" THEN "EntitiesAdded" ELSE "EntitiesRemoved"]
Observed ==
    LET seen == SelectSeq(trace, LAMBDA t : t.kind = "emit" /\ t.ok)
    IN  [i \in 1..Len(seen) |-> seen[i].name]
Quiet == \A p \in Callers : calls.of[p].at \in {"idle", "done"}

\* C38: for Add and Remove calls on the same key issued concurrently by
\* different callers, the listeners observe the Added and Removed events in
\* the order in which the write and the delete were applied to the external
\* store, so that the last event observed for the key tells whether the key
\* is present
C38_EventsInWriteOrder ==
    (Quiet /\ Observed # <<>>) =>
        /\ Observed = Applied
        /\ (Observed[Len(Observed)] = "EntitiesAdded")
              <=> (RedisKey(NewKey(GetKey(RaceEntity), ns[1])) \in DOMAIN redis)

\* the Redis key of entity e in the store of the last call, and the value that
\* the last entity of the call with that key marshals to
StoredAt(e) == RedisKey(NewKey(GetKey(e), ns[last.store]))
LastValue(e) ==
    LET same == { i \in 1..Len(last.ents) : GetKey(last.ents[i]) = GetKey(e) }
    IN  ProtoMarshal(last.ents[CHOOSE i \in same : \A j \in same : j <= i]).data
\* C39: Add or AddBatch on a key that already holds an entity overwrites the
\* stored value and emits Added; no operation of the store ever emits on the
\* Updated event target, and only flush emits on the Flushed target
C39_OverwriteEmitsAdded ==
    pc = "returned" =>
        /\ \A i \in Emits(trace) :
              /\ trace[i].name # "EntitiesUpdated"
              /\ trace[i].name = "EntitiesFlushed" => last.op = "flush"
        /\ ((Succeeded("Add") \/ Succeeded("AddBatch")) /\ last.ents # <<>>) =>
              /\ \A i \in 1..Len(last.ents) :
                    /\ StoredAt(last.ents[i]) \in DOMAIN redis
                    /\ redis[StoredAt(last.ents[i])] = LastValue(last.ents[i])
              /\ Cardinality(Emits(trace)) = 1
              /\ \A i \in Emits(trace) :
                    trace[i].name = "EntitiesAdded" /\ trace[i].keys = last.keys
C39_Witness ==
    /\ Succeeded("Add")
    /\ StoredAt(last.ents[1]) \in DOMAIN last.before
    /\ last.before[StoredAt(last.ents[1])] # redis[StoredAt(last.ents[1])]
    /\ \E i \in Emits(trace) : trace[i].name = "EntitiesAdded"


====
